---- MODULE Spec2Model ----
(***************************************************************************)
(* Real-time chat coordination: the socket service (socketService.ts), the *)
(* REST chat routes (routes/chat.ts), the profile route (routes/users.ts), *)
(* the routes that create accounts (routes/auth.ts, config/passport.ts)    *)
(* and the tables (schema.ts).                                             *)
(*                                                                         *)
(* Every handler is an async function; each of its awaits is a point where *)
(* other handlers run.  One action below is one such segment: a storage or *)
(* cache operation taking effect together with the synchronous code that   *)
(* follows it, except where that synchronous code touches the in-memory    *)
(* registry or the socket rooms, which is a step of its own.               *)
(* A connection dispatches an event while earlier handlers of it are still *)
(* awaiting, and an identity may have several REST requests running; only  *)
(* the total of running handlers and requests is bounded.  Timestamps are  *)
(* not modelled: message and room rows are ordered by id.                  *)
(***************************************************************************)
EXTENDS Integers, Sequences, FiniteSets, TLC

\* ---------------------------------------------------------------- bounds
NumUsers == 3
NumConns == 3
MaxRooms == 2
MaxMessages == 2
MaxInFlight == 2

\* ------------------------------------------------------ program constants
CacheLimit == 100
HistoryLimit == 50
DefaultCapacity == 50
DMCapacity == 2

Users == 1..NumUsers
Conns == 1..NumConns
RoomIds == 1..MaxRooms
Contents == {"hello", "hi"}

\* The users table starts with the active identities and one inactive
\* account; the id after it is in no row until an account is created, and is
\* the last one the id sequence gives out
InactiveUser == NumUsers + 1
UnknownUser == NumUsers + 2
UserIds == 1..UnknownUser

\* Usernames and e-mail addresses are written as numbers: account a registered
\* as name a with address a; the one after those is one nobody has registered
FreshName == NumUsers + 3
FreshEmail == NumUsers + 3

\* Handshake credentials: none, one that jwt.verify rejects, or a valid one
\* carrying the id of an active account, of the inactive one, or of none
NoToken == 0
BadToken == -1

\* The async handler invocations, and the REST requests, that can be running
\* at one time, whichever connections and identities they belong to
Handlers == 1..MaxInFlight
Requests == 1..MaxInFlight

\* userRooms has no key for the identity
NoKey == {0}
\* CacheService.get found nothing (never set, or expired)
Miss == [hit |-> FALSE, msgs |-> <<>>]

VARIABLES
  connectedUsers,   \* socket id -> user id (0: no entry)
  userRooms,        \* user id -> set of socket ids (NoKey: no key)
  sockets,          \* socket id -> "new" | "open" | "closed" | "rejected"
  handshake,        \* socket id -> the users row its middleware is resuming with
  socketData,       \* socket id -> socket.data.user.id (0 before the handshake)
  socketNames,      \* socket id -> socket.data.user.username (0 before)
  socketRooms,      \* socket id -> rooms R whose channel room:R the adapter has it in
  users,            \* table users: id -> [email, username, isActive]
  userSeq,          \* the last value users' id sequence gave out
  oauthProviders,   \* table oauth_providers: rows [provider, providerId, userId]
  chatRooms,        \* table chat_rooms; the row's id is its index
  roomParticipants, \* table room_participants, rows carrying their serial id
  participantSeq,   \* the last value room_participants' id sequence gave out
  chatMessages,     \* table chat_messages, in insertion order
  messageSeq,       \* the last value chat_messages' id sequence gave out
  cache,            \* room id -> [hit, msgs]: the cached message list, or Miss
  pc, loc,          \* handler invocation -> where it is, and its locals
  rpc, rloc,        \* REST request -> where it is, and its locals
  delivered,        \* socket id -> new-message events received, in order
  reply,            \* what the last step emitted to particular sockets: [to, ev]
  restReply         \* the HTTP response the last step sent: [to, status, message]

regVars == <<connectedUsers, userRooms, sockets, handshake, socketData, socketNames, socketRooms>>
dbVars == <<users, userSeq, oauthProviders, chatRooms, roomParticipants, participantSeq,
           chatMessages, messageSeq>>
sockVars == <<pc, loc>>
restVars == <<rpc, rloc>>
vars == <<regVars, dbVars, cache, sockVars, restVars, delivered, reply, restReply>>

NoLoc == [socket |-> 0, op |-> "none", roomId |-> 0, roomType |-> "none", participant |-> 0,
          content |-> "", recipientId |-> 0, recipientName |-> 0, msgId |-> 0,
          msgs |-> <<>>, wasIn |-> FALSE, replyToId |-> 0]
NoRLoc == [userId |-> 0, roomId |-> 0, capacity |-> 0, username |-> 0, email |-> 0,
           provider |-> "none", providerId |-> 0]
\* No middleware of the socket is awaiting
NoHandshake == [pending |-> FALSE, found |-> FALSE, id |-> 0, username |-> 0, isActive |-> FALSE]
NoReply == [to |-> {}, ev |-> [type |-> "none"]]
NoResponse == [to |-> 0, status |-> 0, message |-> ""]

\* ------------------------------------------------------------ sequences
RECURSIVE SeqOfSet(_)
SeqOfSet(S) ==
  IF S = {} THEN <<>>
  ELSE LET m == CHOOSE x \in S : \A y \in S : x <= y
       IN <<m>> \o SeqOfSet(S \ {m})

\* Array.prototype.slice(-n): the last n elements.
SliceLast(s, n) ==
  IF Len(s) <= n THEN s ELSE SubSeq(s, Len(s) - n + 1, Len(s))

\* ------------------------------------------------------------- storage
RoomExists(r) == r \in 1..Len(chatRooms) /\ chatRooms[r].isActive

\* The rows of the pair, by their place in the table
ParticipantIds(u, r) ==
  {i \in 1..Len(roomParticipants) :
     roomParticipants[i].userId = u /\ roomParticipants[i].roomId = r}

\* select ... where roomId = r and userId = u limit 1 (0: no row)
FindParticipant(u, r) ==
  IF ParticipantIds(u, r) = {} THEN 0
  ELSE CHOOSE i \in ParticipantIds(u, r) : \A j \in ParticipantIds(u, r) : i <= j

ActiveParticipantIds(r) ==
  {i \in 1..Len(roomParticipants) :
     roomParticipants[i].roomId = r /\ roomParticipants[i].isActive}

IsActiveMember(u, r) ==
  \E i \in ParticipantIds(u, r) : roomParticipants[i].isActive

ActiveMembers(r) == {roomParticipants[i].userId : i \in ActiveParticipantIds(r)}

\* A table without the unique index: no insert is ever rejected
NoUniqueIndex(u, r) == FALSE

\* The unique index user_room_idx on (user_id, room_id): an insert of a second
\* row for the pair is rejected by the storage layer and the statement throws.
UniqueViolation(u, r) == ParticipantIds(u, r) # {}

\* A row of room_participants; id is what the serial column's sequence gave
ParticipantRow(id, u, r, role) ==
  [id |-> id, userId |-> u, roomId |-> r, role |-> role, isActive |-> TRUE]

\* insert into room_participants one row: the sequence gives out the next id
\* whether or not the unique index then rejects the row
InsertParticipant(u, r, role) ==
  /\ participantSeq' = participantSeq + 1
  /\ roomParticipants' =
       IF UniqueViolation(u, r) THEN roomParticipants
       ELSE Append(roomParticipants, ParticipantRow(participantSeq + 1, u, r, role))

\* The update without the userId condition: every row of the room is written
SetActiveRoomWide(u, r, v) ==
  [i \in 1..Len(roomParticipants) |->
     IF roomParticipants[i].roomId = r
     THEN [roomParticipants[i] EXCEPT !.isActive = v]
     ELSE roomParticipants[i]]

\* update room_participants set isActive = v where userId = u and roomId = r
SetActive(u, r, v) ==
  [i \in 1..Len(roomParticipants) |->
     IF roomParticipants[i].userId = u /\ roomParticipants[i].roomId = r
     THEN [roomParticipants[i] EXCEPT !.isActive = v]
     ELSE roomParticipants[i]]

\* ------------------------------------------------------------ registry
\* userRooms.get(u), with undefined read as the empty set
SocketIdsOf(u) == IF userRooms[u] = NoKey THEN {} ELSE userRooms[u]

\* A disconnect that deletes the socket id and keeps the emptied set
RemoveSocketKeepingKey(u, c) ==
  IF userRooms[u] = NoKey THEN userRooms
  ELSE [userRooms EXCEPT ![u] = @ \ {c}]

\* disconnect handler: delete the socket id, delete the key when the set empties
RemoveSocket(u, c) ==
  IF userRooms[u] = NoKey THEN userRooms
  ELSE IF userRooms[u] \ {c} = {}
       THEN [userRooms EXCEPT ![u] = NoKey]
       ELSE [userRooms EXCEPT ![u] = @ \ {c}]

\* this.io.in(`room:R`).allSockets(): the adapter walks the ids it holds for
\* the room and keeps those the namespace still has a socket for
AllSockets(r) == {c \in Conns : r \in socketRooms[c] /\ sockets[c] = "open"}

\* The identities of the ids the adapter holds for the room, whether or not
\* the namespace or the registry still knows them
UsersOfSocketsIn(r) == {socketData[c] : c \in {d \in Conns : r \in socketRooms[d]}}

\* getOnlineUsersInRoom
getOnlineUsersInRoom(r) ==
  {connectedUsers[c] : c \in {d \in AllSockets(r) : connectedUsers[d] # 0}}

getUserConnectionCount(u) == Cardinality(SocketIdsOf(u))

\* socket.emit(event) to the socket itself: dropped once the socket is closed
Emit(c, ev) ==
  /\ reply' = IF sockets[c] = "open" THEN [to |-> {c}, ev |-> ev] ELSE NoReply
  /\ restReply' = NoResponse

\* The step emits nothing to a particular socket and answers no request
NoEmit ==
  /\ reply' = NoReply
  /\ restReply' = NoResponse

Finish(h) ==
  /\ pc' = [pc EXCEPT ![h] = "idle"]
  /\ loc' = [loc EXCEPT ![h] = NoLoc]

Goto(h, label, l) ==
  /\ pc' = [pc EXCEPT ![h] = label]
  /\ loc' = [loc EXCEPT ![h] = l]

\* Handlers and requests that have started and not yet returned
InFlight ==
  Cardinality({h \in Handlers : pc[h] # "idle"})
    + Cardinality({q \in Requests : rpc[q] # "idle"})

\* The socket the handler was invoked on (its closure's `socket`), and
\* socket.data.user.id
SocketOf(h) == loc[h].socket
UserOf(h) == socketData[SocketOf(h)]

\* req.user.id of the request
CallerOf(q) == rloc[q].userId

\* The invocation a dispatched event becomes: idle ones are alike, the first
\* is taken
FreeHandler ==
  CHOOSE h \in Handlers : pc[h] = "idle" /\ \A g \in Handlers : pc[g] = "idle" => h <= g

\* The same for an arriving request
FreeRequest ==
  CHOOSE q \in Requests : rpc[q] = "idle" /\ \A p \in Requests : rpc[p] = "idle" => q <= p

\* The connection's socket can dispatch an event to a handler
Ready(c) == sockets[c] = "open" /\ InFlight < MaxInFlight

\* The route can start for the identity authenticateToken has put in req.user:
\* an account it found active (0: a route without authentication)
RestReady(u) ==
  /\ InFlight < MaxInFlight
  /\ u = 0 \/ (u \in DOMAIN users /\ users[u].isActive)

\* ---------------------------------------------------------- connection
\* select ... from users where id = ... limit 1
UserFound(id) == id \in DOMAIN users

\* The middleware without the isActive test on the row it found
VerifiedIfFound(user) == user.found

\* io.use middleware: `!user || !user.isActive` is false for the row it read
Verified(user) == user.found /\ user.isActive

\* io.use middleware, up to its await: without a token, or with one that
\* jwt.verify rejects, it calls next(error) at once; otherwise it selects the
\* users row of decoded.id and waits for it
ConnectSelect(c, tok) ==
  /\ sockets[c] = "new"
  /\ ~handshake[c].pending
  /\ IF tok \in {NoToken, BadToken}
     THEN /\ sockets' = [sockets EXCEPT ![c] = "rejected"]
          /\ UNCHANGED handshake
     ELSE /\ handshake' = [handshake EXCEPT ![c] =
               IF UserFound(tok)
               THEN [pending |-> TRUE, found |-> TRUE, id |-> tok,
                     username |-> users[tok].username, isActive |-> users[tok].isActive]
               ELSE [pending |-> TRUE, found |-> FALSE, id |-> tok, username |-> 0,
                     isActive |-> FALSE]]
          /\ UNCHANGED sockets
  /\ UNCHANGED <<connectedUsers, userRooms, socketData, socketNames, socketRooms, dbVars,
                 cache, sockVars, restVars, delivered>>
  /\ NoEmit

\* io.use middleware resumes with the row it read: next(error), or
\* socket.data.user is set from that row and next() lets the 'connection'
\* handler register the socket.  When the client has closed in the meantime
\* socket.io ignores next() and no 'connection' is emitted.
ConnectNext(c) ==
  /\ handshake[c].pending
  /\ handshake' = [handshake EXCEPT ![c] = NoHandshake]
  /\ LET user == handshake[c] IN
       IF ~Verified(user)
       THEN /\ sockets' = IF sockets[c] = "new" THEN [sockets EXCEPT ![c] = "rejected"]
                          ELSE sockets
            /\ UNCHANGED <<connectedUsers, userRooms, socketData, socketNames>>
       ELSE /\ socketData' = [socketData EXCEPT ![c] = user.id]
            /\ socketNames' = [socketNames EXCEPT ![c] = user.username]
            /\ IF sockets[c] = "new"
               THEN /\ sockets' = [sockets EXCEPT ![c] = "open"]
                    /\ connectedUsers' = [connectedUsers EXCEPT ![c] = user.id]
                    /\ userRooms' = [userRooms EXCEPT ![user.id] = SocketIdsOf(user.id) \cup {c}]
               ELSE UNCHANGED <<sockets, connectedUsers, userRooms>>
  /\ UNCHANGED <<socketRooms, dbVars, cache, sockVars, restVars, delivered>>
  /\ NoEmit

\* The client closes while the middleware is awaiting: no handler of the
\* socket is registered yet, so nothing runs
DisconnectEarly(c) ==
  /\ sockets[c] = "new"
  /\ handshake[c].pending
  /\ sockets' = [sockets EXCEPT ![c] = "closed"]
  /\ UNCHANGED <<connectedUsers, userRooms, handshake, socketData, socketNames, socketRooms,
                 dbVars, cache, sockVars, restVars, delivered>>
  /\ NoEmit

\* socket.rooms as the 'disconnect' handler reads it: socket.io has taken the
\* socket out of all its rooms before it emits 'disconnect' (the rooms are
\* still there only at 'disconnecting')
RoomsAtDisconnect(c) == {}

\* socket.to(room).emit for each of the rooms: the other open sockets in them
OfflineAudience(c) ==
  {d \in Conns \ {c} : sockets[d] = "open" /\ socketRooms[d] \cap RoomsAtDisconnect(c) # {}}

\* The transport closes the socket: socket.io takes it out of every room and
\* out of io.sockets.sockets, then runs the 'disconnect' handler, once.  The
\* handlers of the connection that are awaiting storage keep running.
Disconnect(c) ==
  /\ sockets[c] = "open"
  /\ sockets' = [sockets EXCEPT ![c] = "closed"]
  /\ socketRooms' = [socketRooms EXCEPT ![c] = {}]
  /\ connectedUsers' = [connectedUsers EXCEPT ![c] = 0]
  /\ userRooms' = RemoveSocket(socketData[c], c)
  /\ reply' = IF OfflineAudience(c) = {} THEN NoReply
               ELSE [to |-> OfflineAudience(c),
                     ev |-> [type |-> "user-offline", userId |-> socketData[c]]]
  /\ restReply' = NoResponse
  /\ UNCHANGED <<handshake, socketData, socketNames, dbVars, cache, sockVars, restVars, delivered>>

\* ------------------------------------------------------------- join-room
\* handleJoinRoom: select the active room
JoinSelectRoom(c, r) ==
  /\ Ready(c)
  /\ IF ~RoomExists(r)
     THEN /\ Emit(c, [type |-> "error", message |-> "Room not found"])
          /\ UNCHANGED sockVars
     ELSE /\ Goto(FreeHandler, "join_participant",
                  [NoLoc EXCEPT !.socket = c, !.op = "join", !.roomId = r, !.roomType = chatRooms[r].type])
          /\ NoEmit
  /\ UNCHANGED <<regVars, dbVars, cache, restVars, delivered>>

\* handleJoinRoom: select the participant row, deny a private room
JoinSelectParticipant(h) ==
  /\ pc[h] = "join_participant"
  /\ LET p == FindParticipant(UserOf(h), loc[h].roomId) IN
       IF p = 0 /\ loc[h].roomType = "private"
       THEN /\ Emit(SocketOf(h), [type |-> "error", message |-> "Access denied to private room"])
            /\ Finish(h)
       ELSE /\ Goto(h, "join_write", [loc[h] EXCEPT !.participant = p])
            /\ NoEmit
  /\ UNCHANGED <<regVars, dbVars, cache, restVars, delivered>>

\* handleJoinRoom: insert the participant row, or reactivate the one found
\* (update ... where id = participant.id)
JoinWrite(h) ==
  /\ pc[h] = "join_write"
  /\ LET u == UserOf(h)
         r == loc[h].roomId
     IN IF loc[h].participant = 0
        THEN /\ InsertParticipant(u, r, "member")
             /\ IF UniqueViolation(u, r)
                THEN /\ Emit(SocketOf(h), [type |-> "error", message |-> "Failed to join room"])
                     /\ Finish(h)
                ELSE /\ Goto(h, "join_subscribe", loc[h])
                     /\ NoEmit
        ELSE /\ roomParticipants' =
                  [roomParticipants EXCEPT ![loc[h].participant].isActive = TRUE]
             /\ UNCHANGED participantSeq
             /\ Goto(h, "join_subscribe", loc[h])
             /\ NoEmit
  /\ UNCHANGED <<regVars, users, userSeq, oauthProviders, chatRooms, chatMessages, messageSeq, cache, restVars, delivered>>

\* handleJoinRoom: socket.join(`room:R`).  On a socket that has closed in the
\* meantime the call either still reaches the adapter, which takes the id, or
\* does nothing, depending on the socket.io release
JoinSubscribe(h) ==
  /\ pc[h] = "join_subscribe"
  /\ \/ socketRooms' = [socketRooms EXCEPT ![SocketOf(h)] = @ \cup {loc[h].roomId}]
     \/ /\ sockets[SocketOf(h)] = "closed"
        /\ UNCHANGED socketRooms
  /\ Goto(h, "join_cache", loc[h])
  /\ UNCHANGED <<connectedUsers, userRooms, sockets, handshake, socketData, socketNames, dbVars,
                 cache, restVars, delivered>>
  /\ NoEmit

\* getRoomMessages: CacheService.get; a hit returns cached.slice(-limit)
JoinCacheGet(h) ==
  /\ pc[h] = "join_cache"
  /\ IF cache[loc[h].roomId].hit
     THEN Goto(h, "join_info",
               [loc[h] EXCEPT !.msgs = SliceLast(cache[loc[h].roomId].msgs, HistoryLimit)])
     ELSE Goto(h, "join_history", loc[h])
  /\ UNCHANGED <<regVars, dbVars, cache, restVars, delivered>>
  /\ NoEmit

\* getRoomMessages: CacheService.get catches the cache's error and returns
\* null, which reads as a miss
JoinCacheGetFail(h) ==
  /\ pc[h] = "join_cache"
  /\ Goto(h, "join_history", loc[h])
  /\ UNCHANGED <<regVars, dbVars, cache, restVars, delivered>>
  /\ NoEmit

\* The event payload built from a chat_messages row
ChatMessage(msg) ==
  [id |-> msg.id, content |-> msg.content, senderId |-> msg.senderId, roomId |-> msg.roomId]

\* select from chat_messages where roomId = r and not deleted, newest first,
\* limit n; then reversed
RoomHistory(r, n) ==
  LET ids == SeqOfSet({i \in 1..Len(chatMessages) :
                         chatMessages[i].roomId = r /\ ~chatMessages[i].isDeleted})
      last == SliceLast(ids, n)
  IN [k \in 1..Len(last) |-> ChatMessage(chatMessages[last[k]])]

\* getRoomMessages: the storage read after a cache miss
JoinHistory(h) ==
  /\ pc[h] = "join_history"
  /\ Goto(h, "join_cache_set", [loc[h] EXCEPT !.msgs = RoomHistory(loc[h].roomId, HistoryLimit)])
  /\ UNCHANGED <<regVars, dbVars, cache, restVars, delivered>>
  /\ NoEmit

\* getRoomMessages: CacheService.set of what was read
JoinCacheSet(h) ==
  /\ pc[h] = "join_cache_set"
  /\ cache' = [cache EXCEPT ![loc[h].roomId] = [hit |-> TRUE, msgs |-> loc[h].msgs]]
  /\ Goto(h, "join_info", loc[h])
  /\ UNCHANGED <<regVars, dbVars, restVars, delivered>>
  /\ NoEmit

\* getRoomMessages: CacheService.set catches the cache's error; the buffer
\* stays as it was and the messages read from storage are returned
JoinCacheSetFail(h) ==
  /\ pc[h] = "join_cache_set"
  /\ Goto(h, "join_info", loc[h])
  /\ UNCHANGED <<regVars, dbVars, cache, restVars, delivered>>
  /\ NoEmit

\* getRoomInfo, then joined-room to the socket (user-joined goes to the others).
\* Of the payload, the room id and the messages are kept.
JoinInfo(h) ==
  /\ pc[h] = "join_info"
  /\ Emit(SocketOf(h),
          [type |-> "joined-room", roomId |-> loc[h].roomId, messages |-> loc[h].msgs])
  /\ Finish(h)
  /\ UNCHANGED <<regVars, dbVars, cache, restVars, delivered>>

\* The cache entry's TTL (300 s) runs out
CacheExpire(r) ==
  /\ cache[r].hit
  /\ cache' = [cache EXCEPT ![r] = Miss]
  /\ UNCHANGED <<regVars, dbVars, sockVars, restVars, delivered>>
  /\ NoEmit

\* ------------------------------------------------------------ leave-room
\* handleLeaveRoom up to its await: socket.leave(`room:R`).  wasIn is history,
\* not a local of the code: whether the socket was in the channel before
LeaveUnsubscribe(c, r) ==
  /\ Ready(c)
  /\ socketRooms' = [socketRooms EXCEPT ![c] = @ \ {r}]
  /\ Goto(FreeHandler, "leave_write", [NoLoc EXCEPT !.socket = c, !.op = "leave", !.roomId = r,
                                                      !.wasIn = (r \in socketRooms[c])])
  /\ UNCHANGED <<connectedUsers, userRooms, sockets, handshake, socketData, socketNames, dbVars,
                 cache, restVars, delivered>>
  /\ NoEmit

\* handleLeaveRoom: the update of the identity's row, then left-room
LeaveWrite(h) ==
  /\ pc[h] = "leave_write"
  /\ roomParticipants' = SetActive(UserOf(h), loc[h].roomId, FALSE)
  /\ Emit(SocketOf(h), [type |-> "left-room", roomId |-> loc[h].roomId])
  /\ Finish(h)
  /\ UNCHANGED <<regVars, users, userSeq, oauthProviders, chatRooms, participantSeq, chatMessages, messageSeq, cache,
                 restVars, delivered>>

\* handleLeaveRoom: the update throws; the event's catch block answers
LeaveWriteFail(h) ==
  /\ pc[h] = "leave_write"
  /\ Emit(SocketOf(h), [type |-> "error", message |-> "Failed to leave room"])
  /\ Finish(h)
  /\ UNCHANGED <<regVars, dbVars, cache, restVars, delivered>>

\* ---------------------------------------------------------- send-message
\* The check without its isActive condition: any row of the pair passes
FindAnyParticipant(u, r) == FindParticipant(u, r)

\* handleSendMessage: select the sender's row where isActive = true (0: none)
FindActiveParticipant(u, r) ==
  IF \E i \in ParticipantIds(u, r) : roomParticipants[i].isActive
  THEN CHOOSE i \in ParticipantIds(u, r) : roomParticipants[i].isActive
  ELSE 0

\* The membership check of handleSendMessage, for the handler with locals l;
\* `after` is where the caller goes on when the send returns early
SendCheckStep(h, l, after) ==
  IF FindActiveParticipant(socketData[l.socket], l.roomId) = 0
  THEN /\ Emit(l.socket, [type |-> "error", message |-> "You are not a member of this room"])
       /\ IF after = "idle" THEN Finish(h) ELSE Goto(h, after, l)
  ELSE /\ Goto(h, "send_insert", l)
       /\ NoEmit

\* send-message: handleSendMessage from its start to the membership check
SendCheck(c, r, content) ==
  /\ Ready(c)
  /\ SendCheckStep(FreeHandler,
                   [NoLoc EXCEPT !.socket = c, !.op = "send", !.roomId = r, !.content = content], "idle")
  /\ UNCHANGED <<regVars, dbVars, cache, restVars, delivered>>

\* send-message with a replyToId: the same handler, the id kept for the insert
SendCheckReply(c, r, content, replyToId) ==
  /\ Ready(c)
  /\ SendCheckStep(FreeHandler,
                   [NoLoc EXCEPT !.socket = c, !.op = "send", !.roomId = r, !.content = content,
                                 !.replyToId = replyToId], "idle")
  /\ UNCHANGED <<regVars, dbVars, cache, restVars, delivered>>

\* send-message payloads the insert cannot store: no content (the column is
\* NOT NULL), and a replyToId that is no integer (the value cannot be bound to
\* the integer column)
NoContent == "undefined"
NotAnInteger == -1

\* A chat_messages row; replyToId 0 is the column left null
MessageRow(id, u, r, content, replyToId) ==
  [id |-> id, content |-> content, senderId |-> u, roomId |-> r, isDeleted |-> FALSE,
   replyToId |-> replyToId]

\* The chat_messages rows whose id is id: one, or none
MessagesWithId(id) == {i \in 1..Len(chatMessages) : chatMessages[i].id = id}


\* handleSendMessage: insert into chat_messages ... returning; the row takes
\* the next value of the id sequence, and the handler keeps the returned id.
\* At most MaxMessages inserts are attempted after the initial rows.
SendInsert(h) ==
  /\ pc[h] = "send_insert"
  /\ loc[h].content # NoContent
  /\ loc[h].replyToId # NotAnInteger
  /\ messageSeq < MaxMessages
         + Cardinality({i \in 1..Len(chatMessages) : chatMessages[i].content \notin Contents})
  /\ messageSeq' = messageSeq + 1
  /\ chatMessages' = Append(chatMessages,
                            MessageRow(messageSeq + 1, UserOf(h), loc[h].roomId, loc[h].content,
                                       loc[h].replyToId))
  /\ Goto(h, "send_emit", [loc[h] EXCEPT !.msgId = messageSeq + 1])
  /\ UNCHANGED <<regVars, users, userSeq, oauthProviders, chatRooms, roomParticipants, participantSeq, cache,
                 restVars, delivered>>
  /\ NoEmit

\* The error the event's catch block emits when its handler throws
FailureOf(op) ==
  IF op = "dm" THEN [type |-> "error", message |-> "Failed to send private message"]
  ELSE [type |-> "error", message |-> "Failed to send message"]

\* A failed insert that is fanned out all the same, under the id the row
\* would have had
SendInsertFailFansOut(h) ==
  /\ pc[h] = "send_insert"
  /\ messageSeq < MaxMessages
         + Cardinality({i \in 1..Len(chatMessages) : chatMessages[i].content \notin Contents})
  /\ messageSeq' = messageSeq + 1
  /\ delivered' = [d \in Conns |->
                     IF sockets[d] = "open" /\ loc[h].roomId \in socketRooms[d]
                     THEN Append(delivered[d],
                                 [id |-> messageSeq + 1, content |-> loc[h].content,
                                  senderId |-> UserOf(h), roomId |-> loc[h].roomId])
                     ELSE delivered[d]]
  /\ Emit(SocketOf(h), FailureOf(loc[h].op))
  /\ Finish(h)
  /\ UNCHANGED <<regVars, users, userSeq, oauthProviders, chatRooms, roomParticipants,
                 participantSeq, chatMessages, cache, restVars>>

\* handleSendMessage: the awaited insert throws, nothing after it runs, and the
\* catch block of the event handler reports the failure.  Either the statement
\* never ran (a value that cannot be bound, a lost connection) and the id
\* sequence stands as it was, or the storage layer rejected the row (a missing
\* content, a constraint) after the row took the next value of the sequence,
\* which is not given back.  A replyToId that cannot be bound always fails the
\* first way.
SendInsertFail(h) ==
  /\ pc[h] = "send_insert"
  /\ \/ UNCHANGED messageSeq
     \/ /\ loc[h].replyToId # NotAnInteger
        /\ messageSeq < MaxMessages
              + Cardinality({i \in 1..Len(chatMessages) : chatMessages[i].content \notin Contents})
        /\ messageSeq' = messageSeq + 1
  /\ Emit(SocketOf(h), FailureOf(loc[h].op))
  /\ Finish(h)
  /\ UNCHANGED <<regVars, users, userSeq, oauthProviders, chatRooms, roomParticipants,
                 participantSeq, chatMessages, cache, restVars, delivered>>

\* Fan-out by membership instead of by channel: the open sockets whose identity
\* is an active member
MemberSockets(r) == {d \in Conns : sockets[d] = "open" /\ IsActiveMember(socketData[d], r)}

\* The sockets that io.to(`room:R`).emit reaches
Subscribers(r) == {d \in Conns : sockets[d] = "open" /\ r \in socketRooms[d]}

\* handleSendMessage: the ChatMessage built from the returned row
OutgoingMessage(h) ==
  [id |-> loc[h].msgId,
   content |-> chatMessages[CHOOSE i \in MessagesWithId(loc[h].msgId) : TRUE].content,
   senderId |-> UserOf(h), roomId |-> loc[h].roomId]

\* A fan-out that walks the subscribed sockets and sends to all subscribed
\* sockets of each one's identity: a socket gets one copy per such socket
SendEmitPerIdentity(h) ==
  /\ pc[h] = "send_emit"
  /\ delivered' = [d \in Conns |->
                     IF d \in Subscribers(loc[h].roomId)
                     THEN delivered[d] \o
                          [i \in 1..Cardinality({e \in Subscribers(loc[h].roomId) :
                                                    socketData[e] = socketData[d]})
                             |-> OutgoingMessage(h)]
                     ELSE delivered[d]]
  /\ Goto(h, "send_cache_get", loc[h])
  /\ NoEmit
  /\ UNCHANGED <<regVars, dbVars, cache, restVars>>

\* handleSendMessage: io.to(`room:R`).emit('new-message', chatMessage)
SendEmit(h) ==
  /\ pc[h] = "send_emit"
  /\ delivered' = [d \in Conns |->
                     IF d \in Subscribers(loc[h].roomId)
                     THEN Append(delivered[d], OutgoingMessage(h))
                     ELSE delivered[d]]
  /\ Goto(h, "send_cache_get", loc[h])
  /\ NoEmit
  /\ UNCHANGED <<regVars, dbVars, cache, restVars>>

\* cacheMessage: CacheService.get(key) || []
SendCacheGet(h) ==
  /\ pc[h] = "send_cache_get"
  /\ Goto(h, "send_cache_set", [loc[h] EXCEPT !.msgs = cache[loc[h].roomId].msgs])
  /\ UNCHANGED <<regVars, dbVars, cache, restVars, delivered>>
  /\ NoEmit

\* cacheMessage: CacheService.get catches the cache's error and returns null,
\* and the list starts empty
SendCacheGetFail(h) ==
  /\ pc[h] = "send_cache_get"
  /\ Goto(h, "send_cache_set", [loc[h] EXCEPT !.msgs = <<>>])
  /\ UNCHANGED <<regVars, dbVars, cache, restVars, delivered>>
  /\ NoEmit

\* A buffer that keeps its first 100 entries: the newest is the one dropped
PushedKeepingOldest(list, m) ==
  IF Len(list) < CacheLimit THEN Append(list, m) ELSE list

\* cacheMessage: push, keep the last 100
Pushed(list, m) == SliceLast(Append(list, m), CacheLimit)

\* cacheMessage: CacheService.set; handleSendMessage returns
SendCacheSet(h) ==
  /\ pc[h] = "send_cache_set"
  /\ cache' = [cache EXCEPT ![loc[h].roomId] =
                 [hit |-> TRUE, msgs |-> Pushed(loc[h].msgs, OutgoingMessage(h))]]
  /\ IF loc[h].op = "dm" THEN Goto(h, "dm_notify", loc[h]) ELSE Finish(h)
  /\ UNCHANGED <<regVars, dbVars, restVars, delivered>>
  /\ NoEmit

\* cacheMessage: CacheService.set catches the cache's error and returns false;
\* the buffer stays as it was and handleSendMessage returns
SendCacheSetFail(h) ==
  /\ pc[h] = "send_cache_set"
  /\ IF loc[h].op = "dm" THEN Goto(h, "dm_notify", loc[h]) ELSE Finish(h)
  /\ UNCHANGED <<regVars, dbVars, cache, restVars, delivered>>
  /\ NoEmit

\* --------------------------------------------------------------- typing
\* A broadcast that includes the emitting socket (io.to instead of socket.to)
Everyone(c, r) == {d \in Conns : sockets[d] = "open" /\ r \in socketRooms[d]}

\* socket.to(`room:R`): the open sockets in the channel other than the socket
Others(c, r) == {d \in Conns \ {c} : sockets[d] = "open" /\ r \in socketRooms[d]}

\* typing-start: a synchronous handler, one broadcast
TypingStart(c, r) ==
  /\ sockets[c] = "open"
  /\ reply' = IF Others(c, r) = {} THEN NoReply
               ELSE [to |-> Others(c, r),
                     ev |-> [type |-> "user-typing", userId |-> socketData[c], roomId |-> r]]
  /\ restReply' = NoResponse
  /\ UNCHANGED <<regVars, dbVars, cache, sockVars, restVars, delivered>>

\* typing-stop
TypingStop(c, r) ==
  /\ sockets[c] = "open"
  /\ reply' = IF Others(c, r) = {} THEN NoReply
               ELSE [to |-> Others(c, r),
                     ev |-> [type |-> "user-stop-typing", userId |-> socketData[c], roomId |-> r]]
  /\ restReply' = NoResponse
  /\ UNCHANGED <<regVars, dbVars, cache, sockVars, restVars, delivered>>

\* -------------------------------------------------- send-private-message
\* `DM: ${user.username} & ${recipient.username}`: the sender's username as
\* the socket got it at the handshake, the recipient's as the users row has it
DMRoomName(senderName, recipientName) == <<"DM", senderName, recipientName>>

\* handlePrivateMessage: select the recipient from users where id = recipientId
DmSelectRecipient(c, recipientId, content) ==
  /\ Ready(c)
  /\ IF ~UserFound(recipientId)
     THEN /\ Emit(c, [type |-> "error", message |-> "Recipient not found"])
          /\ UNCHANGED sockVars
     ELSE /\ Goto(FreeHandler, "dm_room",
                  [NoLoc EXCEPT !.socket = c, !.op = "dm", !.recipientId = recipientId,
                                !.recipientName = users[recipientId].username,
                                !.content = content])
          /\ NoEmit
  /\ UNCHANGED <<regVars, dbVars, cache, restVars, delivered>>

\* handlePrivateMessage: select the direct room of that name, limit 1
DmSelectRoom(h) ==
  /\ pc[h] = "dm_room"
  /\ LET roomName == DMRoomName(socketNames[SocketOf(h)], loc[h].recipientName)
         found == {r \in 1..Len(chatRooms) :
                     chatRooms[r].type = "direct" /\ chatRooms[r].name = roomName}
     IN
       IF found = {}
       THEN Goto(h, "dm_create", loc[h])
       ELSE \E r \in found : Goto(h, "dm_check", [loc[h] EXCEPT !.roomId = r])
  /\ UNCHANGED <<regVars, dbVars, cache, restVars, delivered>>
  /\ NoEmit

\* handlePrivateMessage: insert the direct room
DmCreateRoom(h) ==
  /\ pc[h] = "dm_create"
  /\ Len(chatRooms) < MaxRooms
  /\ chatRooms' = Append(chatRooms,
       [name |-> DMRoomName(socketNames[SocketOf(h)], loc[h].recipientName), type |-> "direct",
        createdBy |-> UserOf(h), isActive |-> TRUE, maxParticipants |-> DMCapacity])
  /\ Goto(h, "dm_participants", [loc[h] EXCEPT !.roomId = Len(chatRooms) + 1])
  /\ UNCHANGED <<regVars, users, userSeq, oauthProviders, roomParticipants, participantSeq, chatMessages, messageSeq, cache,
                 restVars, delivered>>
  /\ NoEmit

\* handlePrivateMessage: insert both participants in one statement.  A message
\* to oneself names the same (user, room) twice: the second row is rejected
\* after the sequence has given out an id for each, the statement throws and
\* neither row stays
DmInsertParticipants(h) ==
  /\ pc[h] = "dm_participants"
  /\ LET u == UserOf(h)
         v == loc[h].recipientId
         r == loc[h].roomId
     IN IF UniqueViolation(u, r)
        THEN /\ Emit(SocketOf(h), [type |-> "error", message |-> "Failed to send private message"])
             /\ Finish(h)
             /\ participantSeq' = participantSeq + 1
             /\ UNCHANGED roomParticipants
        ELSE IF u = v \/ UniqueViolation(v, r)
        THEN /\ Emit(SocketOf(h), [type |-> "error", message |-> "Failed to send private message"])
             /\ Finish(h)
             /\ participantSeq' = participantSeq + 2
             /\ UNCHANGED roomParticipants
        ELSE /\ roomParticipants' = roomParticipants \o
                   <<ParticipantRow(participantSeq + 1, u, r, "member"),
                     ParticipantRow(participantSeq + 2, v, r, "member")>>
             /\ participantSeq' = participantSeq + 2
             /\ Goto(h, "dm_check", loc[h])
             /\ NoEmit
  /\ UNCHANGED <<regVars, users, userSeq, oauthProviders, chatRooms, chatMessages, messageSeq, cache, restVars, delivered>>

\* handlePrivateMessage calls handleSendMessage: its membership check
DmSendCheck(h) ==
  /\ pc[h] = "dm_check"
  /\ SendCheckStep(h, loc[h], "dm_notify")
  /\ UNCHANGED <<regVars, dbVars, cache, restVars, delivered>>

\* The sockets of userRooms.get(u) that io.sockets.sockets still holds
OpenSocketsOf(u) == {d \in SocketIdsOf(u) : sockets[d] = "open"}

\* handlePrivateMessage: every socket of the recipient joins the room's channel
DmNotify(h) ==
  /\ pc[h] = "dm_notify"
  /\ socketRooms' = [d \in Conns |->
                       IF d \in OpenSocketsOf(loc[h].recipientId)
                       THEN socketRooms[d] \cup {loc[h].roomId}
                       ELSE socketRooms[d]]
  /\ restReply' = NoResponse
  /\ reply' = IF OpenSocketsOf(loc[h].recipientId) = {} THEN NoReply
               ELSE [to |-> OpenSocketsOf(loc[h].recipientId),
                     ev |-> [type |-> "new-dm-room", roomId |-> loc[h].roomId,
                             otherUser |-> UserOf(h)]]
  /\ Finish(h)
  /\ UNCHANGED <<connectedUsers, userRooms, sockets, handshake, socketData, socketNames, dbVars,
                 cache, restVars, delivered>>

\* ------------------------------------------------------------ REST routes
\* res.status(...).json(...) of a request that has awaited
Respond(q, status, message) ==
  /\ restReply' = [to |-> CallerOf(q), status |-> status, message |-> message]
  /\ reply' = NoReply
  /\ rpc' = [rpc EXCEPT ![q] = "idle"]
  /\ rloc' = [rloc EXCEPT ![q] = NoRLoc]

\* The same within the request's first segment
Answer(u, status, message) ==
  /\ restReply' = [to |-> u, status |-> status, message |-> message]
  /\ reply' = NoReply
  /\ UNCHANGED restVars

RGoto(q, label, l) ==
  /\ rpc' = [rpc EXCEPT ![q] = label]
  /\ rloc' = [rloc EXCEPT ![q] = l]
  /\ NoEmit

\* POST /rooms: insert the room
RestCreateRoom(u, name, type, capacity) ==
  /\ RestReady(u)
  /\ Len(chatRooms) < MaxRooms
  /\ chatRooms' = Append(chatRooms,
       [name |-> name, type |-> type, createdBy |-> u, isActive |-> TRUE,
        maxParticipants |-> capacity])
  /\ RGoto(FreeRequest, "create_participant", [NoRLoc EXCEPT !.userId = u, !.roomId = Len(chatRooms) + 1])
  /\ UNCHANGED <<regVars, users, userSeq, oauthProviders, roomParticipants, participantSeq, chatMessages, messageSeq, cache,
                 sockVars, delivered>>

\* POST /rooms: insert the creator as admin
RestCreateParticipant(q) ==
  /\ rpc[q] = "create_participant"
  /\ InsertParticipant(CallerOf(q), rloc[q].roomId, "admin")
  /\ IF UniqueViolation(CallerOf(q), rloc[q].roomId)
     THEN Respond(q, 500, "Internal server error")
     ELSE Respond(q, 201, "Chat room created successfully")
  /\ UNCHANGED <<regVars, users, userSeq, oauthProviders, chatRooms, chatMessages, messageSeq, cache, sockVars, delivered>>

\* POST /rooms: the insert of the room throws; the route answers 500
RestCreateRoomFail(u) ==
  /\ RestReady(u)
  /\ Answer(u, 500, "Internal server error")
  /\ UNCHANGED <<regVars, dbVars, cache, sockVars, delivered>>

\* POST /rooms: the insert of the creator throws; the route answers 500 and
\* the room inserted by the statement before stays: no transaction spans them
RestCreateParticipantFail(q) ==
  /\ rpc[q] = "create_participant"
  /\ Respond(q, 500, "Internal server error")
  /\ UNCHANGED <<regVars, dbVars, cache, sockVars, delivered>>

\* POST /rooms/:id/join: select the active room
RestJoinSelectRoom(u, r) ==
  /\ RestReady(u)
  /\ IF ~RoomExists(r)
     THEN Answer(u, 404, "Room not found")
     ELSE RGoto(FreeRequest, "join_participant",
                [NoRLoc EXCEPT !.userId = u, !.roomId = r, !.capacity = chatRooms[r].maxParticipants])
  /\ UNCHANGED <<regVars, dbVars, cache, sockVars, delivered>>

\* POST /rooms/:id/join: select the identity's row
RestJoinSelectParticipant(q) ==
  /\ rpc[q] = "join_participant"
  /\ LET p == FindParticipant(CallerOf(q), rloc[q].roomId) IN
       IF p # 0
       THEN IF ~roomParticipants[p].isActive
            THEN RGoto(q, "join_reactivate", rloc[q])
            ELSE Respond(q, 200, "Successfully joined the room")
       ELSE RGoto(q, "join_count", rloc[q])
  /\ UNCHANGED <<regVars, dbVars, cache, sockVars, delivered>>

\* POST /rooms/:id/join: reactivate the inactive row
RestJoinReactivate(q) ==
  /\ rpc[q] = "join_reactivate"
  /\ roomParticipants' = SetActive(CallerOf(q), rloc[q].roomId, TRUE)
  /\ Respond(q, 200, "Successfully joined the room")
  /\ UNCHANGED <<regVars, users, userSeq, oauthProviders, chatRooms, participantSeq, chatMessages, messageSeq, cache,
                 sockVars, delivered>>

\* What `const [{ count }] = select({ count: roomParticipants.id }) ...` can
\* bind: the select returns one row per active participant of the room, each
\* carrying that row's id, in no stated order; count is the first one's id
CountResults(r) == {roomParticipants[i].id : i \in ActiveParticipantIds(r)}

\* POST /rooms/:id/join: the capacity check; with no active row the
\* destructuring throws and the route answers 500
RestJoinCount(q) ==
  /\ rpc[q] = "join_count"
  /\ IF CountResults(rloc[q].roomId) = {}
     THEN Respond(q, 500, "Internal server error")
     ELSE \E count \in CountResults(rloc[q].roomId) :
            IF count >= rloc[q].capacity
            THEN Respond(q, 400, "Room is at maximum capacity")
            ELSE RGoto(q, "join_insert", rloc[q])
  /\ UNCHANGED <<regVars, dbVars, cache, sockVars, delivered>>

\* POST /rooms/:id/join: insert the participant row
RestJoinInsert(q) ==
  /\ rpc[q] = "join_insert"
  /\ InsertParticipant(CallerOf(q), rloc[q].roomId, "member")
  /\ IF UniqueViolation(CallerOf(q), rloc[q].roomId)
     THEN Respond(q, 500, "Internal server error")
     ELSE Respond(q, 200, "Successfully joined the room")
  /\ UNCHANGED <<regVars, users, userSeq, oauthProviders, chatRooms, chatMessages, messageSeq, cache, sockVars, delivered>>

\* POST /rooms/:id/leave
RestLeave(u, r) ==
  /\ RestReady(u)
  /\ roomParticipants' = SetActive(u, r, FALSE)
  /\ Answer(u, 200, "Successfully left the room")
  /\ UNCHANGED <<regVars, users, userSeq, oauthProviders, chatRooms, participantSeq, chatMessages, messageSeq, cache,
                 sockVars, delivered>>

\* The accounts other than u that hold the username
HoldersOf(name, u) == {a \in DOMAIN users : users[a].username = name /\ a # u}

\* PATCH /users/profile with a username: is it taken by somebody else
ProfileSelect(u, name) ==
  /\ RestReady(u)
  /\ IF HoldersOf(name, u) # {}
     THEN Answer(u, 409, "Username already taken")
     ELSE RGoto(FreeRequest, "profile_update", [NoRLoc EXCEPT !.userId = u, !.username = name])
  /\ UNCHANGED <<regVars, dbVars, cache, sockVars, delivered>>

\* PATCH /users/profile: update users set username; the unique index on the
\* column rejects a name somebody took in the meantime and the route answers 500
ProfileUpdate(q) ==
  /\ rpc[q] = "profile_update"
  /\ IF HoldersOf(rloc[q].username, CallerOf(q)) # {}
     THEN /\ Respond(q, 500, "Internal server error")
          /\ UNCHANGED users
     ELSE /\ users' = [users EXCEPT ![CallerOf(q)].username = rloc[q].username]
          /\ Respond(q, 200, "Profile updated successfully")
  /\ UNCHANGED <<regVars, userSeq, oauthProviders, chatRooms, roomParticipants,
                 participantSeq, chatMessages, messageSeq,
                 cache, sockVars, delivered>>

\* authenticateToken: the token names no account, or an inactive one
RestUnauthorized(u) ==
  /\ InFlight < MaxInFlight
  /\ ~(u \in DOMAIN users /\ users[u].isActive)
  /\ Answer(u, 401, "User not found or inactive")
  /\ UNCHANGED <<regVars, dbVars, cache, sockVars, delivered>>

\* ------------------------------------------------------ account creation
\* The accounts registered with the e-mail address
EmailHolders(email) == {a \in DOMAIN users : users[a].email = email}

\* insert into users: the sequence gives out the next id whether or not the
\* unique index on email or on username then rejects the row
InsertUser(email, name) ==
  /\ userSeq' = userSeq + 1
  /\ users' =
       IF EmailHolders(email) # {} \/ HoldersOf(name, 0) # {} THEN users
       ELSE [a \in DOMAIN users \cup {userSeq + 1} |->
               IF a = userSeq + 1
               THEN [email |-> email, username |-> name, isActive |-> TRUE]
               ELSE users[a]]

\* POST /auth/register, by a client without identity: is the e-mail registered
RegisterSelectEmail(email, name) ==
  /\ RestReady(0)
  /\ IF EmailHolders(email) # {}
     THEN Answer(0, 409, "Email already registered")
     ELSE RGoto(FreeRequest, "register_username",
                [NoRLoc EXCEPT !.email = email, !.username = name])
  /\ UNCHANGED <<regVars, dbVars, cache, sockVars, delivered>>

\* POST /auth/register: is the username taken
RegisterSelectUsername(q) ==
  /\ rpc[q] = "register_username"
  /\ IF HoldersOf(rloc[q].username, 0) # {}
     THEN Respond(q, 409, "Username already taken")
     ELSE RGoto(q, "register_insert", rloc[q])
  /\ UNCHANGED <<regVars, dbVars, cache, sockVars, delivered>>

\* POST /auth/register: insert the account, active; a row somebody inserted
\* or renamed in the meantime makes the insert throw and the route answer 500
RegisterInsert(q) ==
  /\ rpc[q] = "register_insert"
  /\ userSeq < UnknownUser
  /\ InsertUser(rloc[q].email, rloc[q].username)
  /\ IF EmailHolders(rloc[q].email) # {} \/ HoldersOf(rloc[q].username, 0) # {}
     THEN Respond(q, 500, "Internal server error")
     ELSE RGoto(q, "register_respond", rloc[q])
  /\ UNCHANGED <<regVars, oauthProviders, chatRooms, roomParticipants, participantSeq,
                 chatMessages, messageSeq, cache, sockVars, delivered>>

\* POST /auth/register: the refresh token and the session are stored, 201
RegisterRespond(q) ==
  /\ rpc[q] = "register_respond"
  /\ Respond(q, 201, "User registered successfully")
  /\ UNCHANGED <<regVars, dbVars, cache, sockVars, delivered>>

\* Google or GitHub strategy, the provider having reported a profile with
\* that id, e-mail address (0: none) and name: is the profile linked already.
\* If so its tokens are refreshed and the account is returned.
OAuthSelectProvider(provider, id, email, name) ==
  /\ RestReady(0)
  /\ IF \E i \in 1..Len(oauthProviders) :
          oauthProviders[i].provider = provider /\ oauthProviders[i].providerId = id
     THEN /\ NoEmit
          /\ UNCHANGED restVars
     ELSE RGoto(FreeRequest, IF email = 0 THEN "oauth_user" ELSE "oauth_email",
                [NoRLoc EXCEPT !.provider = provider, !.providerId = id,
                               !.email = email, !.username = name])
  /\ UNCHANGED <<regVars, dbVars, cache, sockVars, delivered>>

\* OAuth strategy: is there an account with the profile's e-mail address
OAuthSelectEmail(q) ==
  /\ rpc[q] = "oauth_email"
  /\ IF EmailHolders(rloc[q].email) # {}
     THEN \E a \in EmailHolders(rloc[q].email) :
            RGoto(q, "oauth_link", [rloc[q] EXCEPT !.userId = a])
     ELSE RGoto(q, "oauth_user", rloc[q])
  /\ UNCHANGED <<regVars, dbVars, cache, sockVars, delivered>>

\* OAuth strategy: insert the account, active, with the profile's address or,
\* when it has none, `${profile.id}@google.oauth` (written 100 + id) or
\* `${profile.username}@github.oauth` (written 200 + name); when the insert
\* throws the strategy ends with done(error)
OAuthInsertUser(q) ==
  /\ rpc[q] = "oauth_user"
  /\ userSeq < UnknownUser
  /\ LET email == IF rloc[q].email # 0 THEN rloc[q].email
                  ELSE IF rloc[q].provider = "google" THEN 100 + rloc[q].providerId
                  ELSE 200 + rloc[q].username
     IN /\ InsertUser(email, rloc[q].username)
        /\ IF EmailHolders(email) # {} \/ HoldersOf(rloc[q].username, 0) # {}
           THEN /\ rpc' = [rpc EXCEPT ![q] = "idle"]
                /\ rloc' = [rloc EXCEPT ![q] = NoRLoc]
                /\ NoEmit
           ELSE RGoto(q, "oauth_link", [rloc[q] EXCEPT !.userId = userSeq + 1])
  /\ UNCHANGED <<regVars, oauthProviders, chatRooms, roomParticipants, participantSeq,
                 chatMessages, messageSeq, cache, sockVars, delivered>>

\* OAuth strategy: insert the oauth_providers row of the account; the unique
\* index on (provider, providerId) rejects a second row of the profile
OAuthInsertProvider(q) ==
  /\ rpc[q] = "oauth_link"
  /\ oauthProviders' =
       IF \E i \in 1..Len(oauthProviders) :
            /\ oauthProviders[i].provider = rloc[q].provider
            /\ oauthProviders[i].providerId = rloc[q].providerId
       THEN oauthProviders
       ELSE Append(oauthProviders,
                   [provider |-> rloc[q].provider, providerId |-> rloc[q].providerId,
                    userId |-> rloc[q].userId])
  /\ rpc' = [rpc EXCEPT ![q] = "idle"]
  /\ rloc' = [rloc EXCEPT ![q] = NoRLoc]
  /\ NoEmit
  /\ UNCHANGED <<regVars, users, userSeq, chatRooms, roomParticipants, participantSeq,
                 chatMessages, messageSeq, cache, sockVars, delivered>>

\* ------------------------------------------------------- specifications
\* The users table as registration left it
RegisteredUsers ==
  [a \in 1..InactiveUser |-> [email |-> a, username |-> a, isActive |-> a \in Users]]

Init ==
  /\ connectedUsers = [c \in Conns |-> 0]
  /\ userRooms = [u \in UserIds |-> NoKey]
  /\ sockets = [c \in Conns |-> "new"]
  /\ handshake = [c \in Conns |-> NoHandshake]
  /\ socketData = [c \in Conns |-> 0]
  /\ socketNames = [c \in Conns |-> 0]
  /\ users = RegisteredUsers
  /\ userSeq = InactiveUser
  /\ oauthProviders = <<>>
  /\ socketRooms = [c \in Conns |-> {}]
  /\ chatRooms = <<>>
  /\ roomParticipants = <<>>
  /\ participantSeq = 0
  /\ chatMessages = <<>>
  /\ messageSeq = 0
  /\ cache = [r \in RoomIds |-> Miss]
  /\ pc = [h \in Handlers |-> "idle"]
  /\ loc = [h \in Handlers |-> NoLoc]
  /\ rpc = [q \in Requests |-> "idle"]
  /\ rloc = [q \in Requests |-> NoRLoc]
  /\ delivered = [c \in Conns |-> <<>>]
  /\ reply = NoReply
  /\ restReply = NoResponse

Next ==
  \/ \E c \in Conns, tok \in {NoToken, BadToken} \cup UserIds : ConnectSelect(c, tok)
  \/ \E c \in Conns : ConnectNext(c)
  \/ \E c \in Conns : DisconnectEarly(c)
  \/ \E c \in Conns : Disconnect(c)
  \/ \E c \in Conns, r \in RoomIds : JoinSelectRoom(c, r)
  \/ \E h \in Handlers : JoinSelectParticipant(h)
  \/ \E h \in Handlers : JoinWrite(h)
  \/ \E h \in Handlers : JoinSubscribe(h)
  \/ \E h \in Handlers : JoinCacheGet(h)
  \/ \E h \in Handlers : JoinCacheGetFail(h)
  \/ \E h \in Handlers : JoinHistory(h)
  \/ \E h \in Handlers : JoinCacheSet(h)
  \/ \E h \in Handlers : JoinCacheSetFail(h)
  \/ \E h \in Handlers : JoinInfo(h)
  \/ \E r \in RoomIds : CacheExpire(r)
  \/ \E c \in Conns, r \in RoomIds : LeaveUnsubscribe(c, r)
  \/ \E h \in Handlers : LeaveWrite(h)
  \/ \E h \in Handlers : LeaveWriteFail(h)
  \/ \E c \in Conns, r \in RoomIds, content \in Contents \cup {NoContent} : SendCheck(c, r, content)
  \/ \E c \in Conns, r \in RoomIds, content \in Contents \cup {NoContent},
        replyToId \in (1..(MaxMessages + 1)) \cup {NotAnInteger} :
        SendCheckReply(c, r, content, replyToId)
  \/ \E h \in Handlers : SendInsert(h)
  \/ \E h \in Handlers : SendInsertFail(h)
  \/ \E h \in Handlers : SendEmit(h)
  \/ \E h \in Handlers : SendCacheGet(h)
  \/ \E h \in Handlers : SendCacheGetFail(h)
  \/ \E h \in Handlers : SendCacheSet(h)
  \/ \E h \in Handlers : SendCacheSetFail(h)
  \/ \E c \in Conns, r \in RoomIds : TypingStart(c, r)
  \/ \E c \in Conns, r \in RoomIds : TypingStop(c, r)
  \/ \E c \in Conns, v \in UserIds, content \in Contents \cup {NoContent} :
        DmSelectRecipient(c, v, content)
  \/ \E h \in Handlers : DmSelectRoom(h)
  \/ \E h \in Handlers : DmCreateRoom(h)
  \/ \E h \in Handlers : DmInsertParticipants(h)
  \/ \E h \in Handlers : DmSendCheck(h)
  \/ \E h \in Handlers : DmNotify(h)
  \/ \E u \in UserIds : RestUnauthorized(u)
  \/ \E u \in UserIds, n \in {<<"general">>}, t \in {"public", "private"}, k \in {2, DefaultCapacity} : RestCreateRoom(u, n, t, k)
  \/ \E q \in Requests : RestCreateParticipant(q)
  \/ \E u \in UserIds : RestCreateRoomFail(u)
  \/ \E q \in Requests : RestCreateParticipantFail(q)
  \/ \E u \in UserIds, r \in RoomIds : RestJoinSelectRoom(u, r)
  \/ \E q \in Requests : RestJoinSelectParticipant(q)
  \/ \E q \in Requests : RestJoinReactivate(q)
  \/ \E q \in Requests : RestJoinCount(q)
  \/ \E q \in Requests : RestJoinInsert(q)
  \/ \E u \in UserIds, r \in RoomIds : RestLeave(u, r)
  \/ \E u \in UserIds, name \in (1..InactiveUser) \cup {FreshName} : ProfileSelect(u, name)
  \/ \E q \in Requests : ProfileUpdate(q)
  \/ \E email \in (1..InactiveUser) \cup {FreshEmail, FreshEmail + 1},
        name \in (1..InactiveUser) \cup {FreshName} : RegisterSelectEmail(email, name)
  \/ \E q \in Requests : RegisterSelectUsername(q)
  \/ \E q \in Requests : RegisterInsert(q)
  \/ \E q \in Requests : RegisterRespond(q)
  \/ \E provider \in {"google", "github"}, id \in 1..2,
        email \in {0} \cup (1..InactiveUser) \cup {FreshEmail, FreshEmail + 1},
        name \in (1..InactiveUser) \cup {FreshName} :
        OAuthSelectProvider(provider, id, email, name)
  \/ \E q \in Requests : OAuthSelectEmail(q)
  \/ \E q \in Requests : OAuthInsertUser(q)
  \/ \E q \in Requests : OAuthInsertProvider(q)

Spec == Init /\ [][Next]_vars
\* -------------------------------------------------------------- scenarios
\* Whose token connection c presented, per scenario: one connection for each
\* identity in turn; for joining, identities 2 and 3 in turn (for private
\* messages, identities 1 and 2 in turn, written ((c - 1) % 2) + 1)
ChatUser(c) == ((c - 1) % NumUsers) + 1
JoinUser(c) == IF c % 2 = 1 THEN 2 ELSE 3

PublicRoom(creator, capacity) ==
  [name |-> <<"general">>, type |-> "public", createdBy |-> creator, isActive |-> TRUE,
   maxParticipants |-> capacity]

\* Every connection admitted, no handler or request running, nothing received
AllConnected(owner) ==
  /\ connectedUsers = [c \in Conns |-> owner[c]]
  /\ userRooms = [u \in UserIds |->
                    IF {c \in Conns : owner[c] = u} = {} THEN NoKey
                    ELSE {c \in Conns : owner[c] = u}]
  /\ sockets = [c \in Conns |-> "open"]
  /\ handshake = [c \in Conns |-> NoHandshake]
  /\ socketData = [c \in Conns |-> owner[c]]
  /\ socketNames = [c \in Conns |-> RegisteredUsers[owner[c]].username]
  /\ users = RegisteredUsers
  /\ userSeq = InactiveUser
  /\ oauthProviders = <<>>
  /\ chatMessages = <<>>
  /\ messageSeq = 0
  /\ cache = [r \in RoomIds |-> Miss]
  /\ pc = [h \in Handlers |-> "idle"]
  /\ loc = [h \in Handlers |-> NoLoc]
  /\ rpc = [q \in Requests |-> "idle"]
  /\ rloc = [q \in Requests |-> NoRLoc]
  /\ delivered = [c \in Conns |-> <<>>]
  /\ reply = NoReply
  /\ restReply = NoResponse

\* Identity 1 has created public room 1 and identity 2 has joined it; their
\* connections are in the room's channel.
InitChat ==
  /\ AllConnected([c \in Conns |-> ChatUser(c)])
  /\ socketRooms = [c \in Conns |-> IF ChatUser(c) \in {1, 2} THEN {1} ELSE {}]
  /\ chatRooms = <<PublicRoom(1, DefaultCapacity)>>
  /\ roomParticipants = <<ParticipantRow(1, 1, 1, "admin"), ParticipantRow(2, 2, 1, "member")>>
  /\ participantSeq = 2

\* What connection c writes
ContentOf(c) == IF c % 2 = 1 THEN "hello" ELSE "hi"

\* The steps of a send-message once its handler has started
SendSteps ==
  \/ \E h \in Handlers : SendInsert(h)
  \/ \E h \in Handlers : SendInsertFail(h)
  \/ \E h \in Handlers : SendEmit(h)
  \/ \E h \in Handlers : SendCacheGet(h)
  \/ \E h \in Handlers : SendCacheSet(h)

\* Every connection may send to the rooms that exist, any number of its
\* handlers running at a time; identity 2 may leave through the REST route
NextSend ==
  \/ \E c \in Conns, r \in 1..Len(chatRooms) : SendCheck(c, r, ContentOf(c))
  \/ SendSteps
  \/ \E u \in {2}, r \in 1..Len(chatRooms) : RestLeave(u, r)

SpecSend == InitChat /\ [][NextSend]_vars

\* Identity 1 has created public room 1 with room for one more member;
\* nobody else has a Membership row.  The connections are identity 2's and 3's.
InitJoin ==
  /\ AllConnected([c \in Conns |-> JoinUser(c)])
  /\ socketRooms = [c \in Conns |-> {}]
  /\ chatRooms = <<PublicRoom(1, 2)>>
  /\ roomParticipants = <<ParticipantRow(1, 1, 1, "admin")>>
  /\ participantSeq = 1

\* Identities 2 and 3 join room 1 through the REST route
Joiners == {2, 3}

\* The steps of a join-room once its handler has started
JoinSteps ==
  \/ \E h \in Handlers : JoinSelectParticipant(h)
  \/ \E h \in Handlers : JoinWrite(h)
  \/ \E h \in Handlers : JoinSubscribe(h)
  \/ \E h \in Handlers : JoinCacheGet(h)
  \/ \E h \in Handlers : JoinHistory(h)
  \/ \E h \in Handlers : JoinCacheSet(h)
  \/ \E h \in Handlers : JoinInfo(h)

\* Connection 1, of identity 2, joins and leaves room 1 through its socket,
\* any number of its handlers running at a time; identities 2 and 3 join, and
\* identity 2 leaves, through the REST routes
NextJoin ==
  \/ \E c \in {1}, r \in 1..Len(chatRooms) : JoinSelectRoom(c, r)
  \/ \E h \in Handlers : JoinSelectParticipant(h)
  \/ \E h \in Handlers : JoinWrite(h)
  \/ \E h \in Handlers : JoinSubscribe(h)
  \/ \E h \in Handlers : JoinCacheGet(h)
  \/ \E h \in Handlers : JoinHistory(h)
  \/ \E h \in Handlers : JoinCacheSet(h)
  \/ \E h \in Handlers : JoinInfo(h)
  \/ \E c \in {1}, r \in 1..Len(chatRooms) : LeaveUnsubscribe(c, r)
  \/ \E h \in Handlers : LeaveWrite(h)
  \/ \E u \in Joiners, r \in 1..Len(chatRooms) : RestJoinSelectRoom(u, r)
  \/ \E q \in Requests : RestJoinSelectParticipant(q)
  \/ \E q \in Requests : RestJoinReactivate(q)
  \/ \E q \in Requests : RestJoinCount(q)
  \/ \E q \in Requests : RestJoinInsert(q)
  \/ \E u \in {2}, r \in 1..Len(chatRooms) : RestLeave(u, r)

SpecJoin == InitJoin /\ [][NextJoin]_vars

\* The same with join-room on the other connections too
NextAdmit ==
  \/ NextJoin
  \/ \E c \in Conns \ {1}, r \in 1..Len(chatRooms) : JoinSelectRoom(c, r)

SpecAdmit == InitJoin /\ [][NextAdmit]_vars

\* The same, and any connection may be closed at any moment
NextPresence ==
  \/ NextAdmit
  \/ \E c \in Conns : Disconnect(c)

SpecPresence == InitJoin /\ [][NextPresence]_vars

\* Nobody has created a room yet.
InitDM ==
  /\ AllConnected([c \in Conns |-> ((c - 1) % 2) + 1])
  /\ socketRooms = [c \in Conns |-> {}]
  /\ chatRooms = <<>>
  /\ roomParticipants = <<>>
  /\ participantSeq = 0

\* Identities 1 and 2 write to each other (and to themselves)
DmPair == {1, 2}

\* The steps of a private message once its handler has started
DmSteps ==
  \/ \E h \in Handlers : DmSelectRoom(h)
  \/ \E h \in Handlers : DmCreateRoom(h)
  \/ \E h \in Handlers : DmInsertParticipants(h)
  \/ \E h \in Handlers : DmSendCheck(h)
  \/ \E h \in Handlers : SendInsert(h)
  \/ \E h \in Handlers : SendInsertFail(h)
  \/ \E h \in Handlers : SendEmit(h)
  \/ \E h \in Handlers : SendCacheGet(h)
  \/ \E h \in Handlers : SendCacheSet(h)
  \/ \E h \in Handlers : DmNotify(h)

\* Private messages between any two identities, handlers running concurrently
NextDM ==
  \/ \E c \in Conns, v \in DmPair : DmSelectRecipient(c, v, ContentOf(c))
  \/ DmSteps

SpecDM == InitDM /\ [][NextDM]_vars

\* Private messages one at a time; identity 2 may change its username to one
\* nobody has in between
NextDMSeq ==
  \/ \E c \in Conns, v \in DmPair, content \in Contents : InFlight = 0 /\ DmSelectRecipient(c, v, content)
  \/ DmSteps
  \/ \E u \in {2} : InFlight = 0 /\ ProfileSelect(u, FreshName)
  \/ \E q \in Requests : ProfileUpdate(q)

SpecDMSeq == InitDM /\ [][NextDMSeq]_vars

\* Connections 1 and 2 start private messages and send-messages to the rooms
\* that exist, one after the other; the other connections of the two
\* identities only receive; identity 2 may change its username in between
NextDeliver ==
  \/ \E c \in {1, 2}, v \in DmPair : InFlight = 0 /\ DmSelectRecipient(c, v, ContentOf(c))
  \/ \E c \in {1, 2}, r \in 1..Len(chatRooms) : InFlight = 0 /\ SendCheck(c, r, ContentOf(c))
  \/ DmSteps
  \/ \E u \in {2} : InFlight = 0 /\ ProfileSelect(u, FreshName)
  \/ \E q \in Requests : ProfileUpdate(q)

SpecDeliver == InitDM /\ [][NextDeliver]_vars

\* Identity 1 has written to identity 2: room 1 is their direct room.  The
\* connections are identity 2's and 3's, in no channel.
InitDirect ==
  /\ AllConnected([c \in Conns |-> JoinUser(c)])
  /\ socketRooms = [c \in Conns |-> {}]
  /\ chatRooms = <<[name |-> DMRoomName(1, 2), type |-> "direct", createdBy |-> 1,
                    isActive |-> TRUE, maxParticipants |-> DMCapacity]>>
  /\ roomParticipants = <<ParticipantRow(1, 1, 1, "member"), ParticipantRow(2, 2, 1, "member")>>
  /\ participantSeq = 2

\* Joining and leaving the direct room, on both paths
SpecDirect == InitDirect /\ [][NextAdmit]_vars

\* Identity 1 has created private room 1; nobody else has a Membership row,
\* and no other room exists.  The connections are identity 2's and 3's.
InitPrivate ==
  /\ AllConnected([c \in Conns |-> JoinUser(c)])
  /\ socketRooms = [c \in Conns |-> {}]
  /\ chatRooms = <<[PublicRoom(1, DefaultCapacity) EXCEPT !.type = "private"]>>
  /\ roomParticipants = <<ParticipantRow(1, 1, 1, "admin")>>
  /\ participantSeq = 1

\* Joining, on both paths, the private room and rooms that do not exist
NextPrivate ==
  \/ \E c \in Conns, r \in RoomIds : JoinSelectRoom(c, r)
  \/ \E h \in Handlers : JoinSelectParticipant(h)
  \/ \E h \in Handlers : JoinWrite(h)
  \/ \E h \in Handlers : JoinSubscribe(h)
  \/ \E h \in Handlers : JoinCacheGet(h)
  \/ \E h \in Handlers : JoinHistory(h)
  \/ \E h \in Handlers : JoinCacheSet(h)
  \/ \E h \in Handlers : JoinInfo(h)
  \/ \E u \in Joiners, r \in RoomIds : RestJoinSelectRoom(u, r)
  \/ \E q \in Requests : RestJoinSelectParticipant(q)
  \/ \E q \in Requests : RestJoinReactivate(q)
  \/ \E q \in Requests : RestJoinCount(q)
  \/ \E q \in Requests : RestJoinInsert(q)
  \/ \E u \in Joiners, r \in RoomIds : RestLeave(u, r)

SpecPrivate == InitPrivate /\ [][NextPrivate]_vars

\* Creating rooms through POST /rooms, either insert of which may fail
NextCreate ==
  \/ \E u \in Users, n \in {<<"general">>}, t \in {"public", "private"}, k \in {2, DefaultCapacity} :
        RestCreateRoom(u, n, t, k)
  \/ \E u \in Users : RestCreateRoomFail(u)
  \/ \E q \in Requests : RestCreateParticipant(q)
  \/ \E q \in Requests : RestCreateParticipantFail(q)

SpecCreate == InitDM /\ [][NextCreate]_vars

\* Identity 1 has created public room 1 and identity 2 has joined it; no
\* connection has presented its token yet.
InitConnect ==
  /\ connectedUsers = [c \in Conns |-> 0]
  /\ userRooms = [u \in UserIds |-> NoKey]
  /\ sockets = [c \in Conns |-> "new"]
  /\ handshake = [c \in Conns |-> NoHandshake]
  /\ socketData = [c \in Conns |-> 0]
  /\ socketNames = [c \in Conns |-> 0]
  /\ users = RegisteredUsers
  /\ userSeq = InactiveUser
  /\ oauthProviders = <<>>
  /\ socketRooms = [c \in Conns |-> {}]
  /\ chatRooms = <<PublicRoom(1, DefaultCapacity)>>
  /\ roomParticipants = <<ParticipantRow(1, 1, 1, "admin"), ParticipantRow(2, 2, 1, "member")>>
  /\ participantSeq = 2
  /\ chatMessages = <<>>
  /\ messageSeq = 0
  /\ cache = [r \in RoomIds |-> Miss]
  /\ pc = [h \in Handlers |-> "idle"]
  /\ loc = [h \in Handlers |-> NoLoc]
  /\ rpc = [q \in Requests |-> "idle"]
  /\ rloc = [q \in Requests |-> NoRLoc]
  /\ delivered = [c \in Conns |-> <<>>]
  /\ reply = NoReply
  /\ restReply = NoResponse

\* Handshakes on every connection, presenting nothing, a bad token, the
\* inactive or the unknown account, or its identity, and closes;
\* join-room on connections 1 and 2 once they were admitted, one at a time;
\* meanwhile somebody registers the account that gets the unknown id
NextConnect ==
  \/ \E c \in Conns : \E tok \in {NoToken, BadToken, InactiveUser, UnknownUser, ChatUser(c)} : ConnectSelect(c, tok)
  \/ \E c \in Conns : ConnectNext(c)
  \/ \E c \in Conns : DisconnectEarly(c)
  \/ \E c \in Conns : Disconnect(c)
  \/ \E c \in {1, 2}, r \in 1..Len(chatRooms) : InFlight = 0 /\ JoinSelectRoom(c, r)
  \/ JoinSteps
  \/ InFlight = 0 /\ RegisterSelectEmail(FreshEmail, FreshName)
  \/ \E q \in Requests : RegisterSelectUsername(q)
  \/ \E q \in Requests : RegisterInsert(q)
  \/ \E q \in Requests : RegisterRespond(q)

SpecConnect == InitConnect /\ [][NextConnect]_vars

\* Typing indicators on every connection while connection 1 sends and
\* identity 2 leaves
NextTyping ==
  \/ \E c \in {1}, r \in 1..Len(chatRooms) : SendCheck(c, r, ContentOf(c))
  \/ SendSteps
  \/ \E u \in {2}, r \in 1..Len(chatRooms) : RestLeave(u, r)
  \/ \E c \in Conns, r \in 1..Len(chatRooms) : TypingStart(c, r)
  \/ \E c \in Conns, r \in 1..Len(chatRooms) : TypingStop(c, r)

SpecTyping == InitChat /\ [][NextTyping]_vars

\* How many messages identity 1 had sent to room 1, one after the other, before:
\* none, or enough for the next ones to fill the buffer and push entries out

\* As InitChat, after identity 1 has sent that many messages to room 1, all of
\* them stored and, the first having created the buffer, cached
InitWindow ==
  /\ connectedUsers = [c \in Conns |-> ChatUser(c)]
  /\ userRooms = [u \in UserIds |->
                    IF {c \in Conns : ChatUser(c) = u} = {} THEN NoKey
                    ELSE {c \in Conns : ChatUser(c) = u}]
  /\ sockets = [c \in Conns |-> "open"]
  /\ handshake = [c \in Conns |-> NoHandshake]
  /\ socketData = [c \in Conns |-> ChatUser(c)]
  /\ socketNames = [c \in Conns |-> RegisteredUsers[ChatUser(c)].username]
  /\ users = RegisteredUsers
  /\ userSeq = InactiveUser
  /\ oauthProviders = <<>>
  /\ socketRooms = [c \in Conns |-> IF ChatUser(c) \in {1, 2} THEN {1} ELSE {}]
  /\ chatRooms = <<PublicRoom(1, DefaultCapacity)>>
  /\ roomParticipants = <<ParticipantRow(1, 1, 1, "admin"), ParticipantRow(2, 2, 1, "member")>>
  /\ participantSeq = 2
  /\ \E n \in {0, CacheLimit - 1, CacheLimit} :
       /\ chatMessages = [i \in 1..n |-> MessageRow(i, 1, 1, "old", 0)]
       /\ messageSeq = n
       /\ cache = [r \in RoomIds |->
                     IF r = 1 /\ n > 0
                     THEN [hit |-> TRUE, msgs |-> [i \in 1..n |->
                                         [id |-> i, content |-> "old", senderId |-> 1, roomId |-> 1]]]
                     ELSE Miss]
  /\ pc = [h \in Handlers |-> "idle"]
  /\ loc = [h \in Handlers |-> NoLoc]
  /\ rpc = [q \in Requests |-> "idle"]
  /\ rloc = [q \in Requests |-> NoRLoc]
  /\ delivered = [c \in Conns |-> <<>>]
  /\ reply = NoReply
  /\ restReply = NoResponse

\* Sends one after the other, with or without a content; an insert, a cache
\* read or a cache write may fail
NextWindow ==
  \/ \E c \in Conns, r \in 1..Len(chatRooms), content \in Contents \cup {NoContent} :
       InFlight = 0 /\ SendCheck(c, r, content)
  \/ \E h \in Handlers : SendInsert(h)
  \/ \E h \in Handlers : SendInsertFail(h)
  \/ \E h \in Handlers : SendEmit(h)
  \/ \E h \in Handlers : SendCacheGet(h)
  \/ \E h \in Handlers : SendCacheGetFail(h)
  \/ \E h \in Handlers : SendCacheSet(h)
  \/ \E h \in Handlers : SendCacheSetFail(h)

SpecWindow == InitWindow /\ [][NextWindow]_vars

\* The handlers of SpecSend, and send-message with a replyToId: the id of a
\* stored message, one beyond, or a value that is no integer
NextReply ==
  \/ NextSend
  \/ \E c \in Conns, r \in 1..Len(chatRooms), i \in (1..(MaxMessages + 1)) \cup {NotAnInteger} :
       SendCheckReply(c, r, ContentOf(c), i)

SpecReply == InitChat /\ [][NextReply]_vars

\* Connection 3 joins room 1 while connections 1 and 2 send to it, and the
\* buffer may expire
NextArrive ==
  \/ \E c \in {1, 2}, r \in 1..Len(chatRooms) : SendCheck(c, r, ContentOf(c))
  \/ \E h \in Handlers : SendInsert(h)
  \/ \E h \in Handlers : SendEmit(h)
  \/ \E h \in Handlers : SendCacheGet(h)
  \/ \E h \in Handlers : SendCacheSet(h)
  \/ \E c \in {3}, r \in 1..Len(chatRooms) : JoinSelectRoom(c, r)
  \/ JoinSteps
  \/ \E r \in RoomIds : CacheExpire(r)

SpecArrive == InitChat /\ [][NextArrive]_vars

\* Sends and joins one after the other; the buffer may expire in between
NextHistory ==
  \/ \E c \in Conns, r \in 1..Len(chatRooms), content \in Contents : InFlight = 0 /\ SendCheck(c, r, content)
  \/ \E h \in Handlers : SendInsert(h)
  \/ \E h \in Handlers : SendEmit(h)
  \/ \E h \in Handlers : SendCacheGet(h)
  \/ \E h \in Handlers : SendCacheSet(h)
  \/ \E c \in Conns, r \in 1..Len(chatRooms) : InFlight = 0 /\ JoinSelectRoom(c, r)
  \/ \E h \in Handlers : JoinSelectParticipant(h)
  \/ \E h \in Handlers : JoinWrite(h)
  \/ \E h \in Handlers : JoinSubscribe(h)
  \/ \E h \in Handlers : JoinCacheGet(h)
  \/ \E h \in Handlers : JoinHistory(h)
  \/ \E h \in Handlers : JoinCacheSet(h)
  \/ \E h \in Handlers : JoinInfo(h)
  \/ \E r \in RoomIds : CacheExpire(r)

SpecHistory == InitChat /\ [][NextHistory]_vars

\* The handlers of SpecSend and leave-room on the connections of identity 2,
\* whose update may also fail
NextFail ==
  \/ NextSend
  \/ \E c \in {c \in Conns : socketData[c] = 2}, r \in 1..Len(chatRooms) : LeaveUnsubscribe(c, r)
  \/ \E h \in Handlers : LeaveWrite(h)
  \/ \E h \in Handlers : LeaveWriteFail(h)

SpecFail == InitChat /\ [][NextFail]_vars

\* Handshakes and closes of several connections of one identity, with
\* leave-room on the connections that were admitted
NextRegistry ==
  \/ \E c \in Conns : \E tok \in {NoToken, ((c - 1) % 2) + 1} : ConnectSelect(c, tok)
  \/ \E c \in Conns : ConnectNext(c)
  \/ \E c \in Conns : DisconnectEarly(c)
  \/ \E c \in Conns : Disconnect(c)
  \/ \E c \in Conns, r \in 1..Len(chatRooms) : LeaveUnsubscribe(c, r)
  \/ \E h \in Handlers : LeaveWrite(h)

SpecRegistry == InitConnect /\ [][NextRegistry]_vars

\* Connections close at any moment while a join-room of connection 2 or 3, or
\* a private message of connection 1 to identity 2, is running; the handlers
\* start one after the other
NextClosed ==
  \/ \E c \in Conns : Disconnect(c)
  \/ \E c \in {2, 3}, r \in 1..Len(chatRooms) : InFlight = 0 /\ JoinSelectRoom(c, r)
  \/ JoinSteps
  \/ \E c \in {1}, v \in {2} : InFlight = 0 /\ DmSelectRecipient(c, v, ContentOf(c))
  \/ DmSteps

SpecClosed == InitChat /\ [][NextClosed]_vars
\* ------------------------------------------------------------------ claims

\* C1: in every state and for every room R, the identities getOnlineUsersInRoom
\* reports for R are among the identities holding an active Membership in R.
OnlineSubsetOfMembers ==
  \A r \in RoomIds : getOnlineUsersInRoom(r) \subseteq ActiveMembers(r)

\* C2: joins of identities without a Membership row, racing for the last free
\* slot of a room, never take the room's active-member count above its capacity.
NoOverAdmission ==
  \A r \in 1..Len(chatRooms) :
    Cardinality(ActiveParticipantIds(r)) <= chatRooms[r].maxParticipants

\* C3: when a writes to b while b writes to a, the two private-message handlers
\* resolve to the same room id.
FirstContactAgrees ==
  \A g, h \in Handlers :
    ( /\ loc[g].op = "dm" /\ loc[h].op = "dm"
      /\ loc[g].roomId # 0 /\ loc[h].roomId # 0
      /\ UserOf(g) # UserOf(h)
      /\ loc[g].recipientId = UserOf(h)
      /\ loc[h].recipientId = UserOf(g) )
    => loc[g].roomId = loc[h].roomId

\* The Membership rows of a room, active or not
RowsOf(r) == {i \in 1..Len(roomParticipants) : roomParticipants[i].roomId = r}

\* The identities a direct room was created for: those of its Membership rows
DirectPair(r) == {roomParticipants[i].userId : i \in RowsOf(r)}


\* C4: with one handler at a time, resolving (a, b) and (b, a) in any order never
\* leaves more than one direct room for the unordered pair {a, b}.
OneDirectRoomPerPair ==
  \A r1, r2 \in {r \in 1..Len(chatRooms) : chatRooms[r].type = "direct"} :
    (DirectPair(r1) # {} /\ DirectPair(r1) = DirectPair(r2)) => r1 = r2

\* C5: every connection receives the new-message events of one room in the
\* order of their persisted ids.
DeliveredInIdOrder ==
  \A c \in Conns : \A i, j \in 1..Len(delivered[c]) :
    (i < j /\ delivered[c][i].roomId = delivered[c][j].roomId)
    => delivered[c][i].id < delivered[c][j].id

\* C6: a send-message by an identity that holds no active Membership in the room
\* when the handler checks ends there with the not-a-member error: the handler
\* returns, and no message row, cache entry or new-message event comes of it;
\* rows, cache entries and events only come from handlers that passed the check.
NonMemberSendRejected ==
  [][ /\ \A c \in Conns, r \in 1..Len(chatRooms) :
           (~IsActiveMember(socketData[c], r) /\ SendCheck(c, r, ContentOf(c)))
           => /\ pc' = pc /\ loc' = loc
              /\ reply' = [to |-> {c}, ev |-> [type |-> "error",
                                                  message |-> "You are not a member of this room"]]
              /\ chatMessages' = chatMessages
              /\ cache' = cache
              /\ delivered' = delivered
      /\ \A h \in Handlers :
           (pc[h] # "send_insert" /\ pc'[h] = "send_insert")
           => IsActiveMember(socketData[loc'[h].socket], loc'[h].roomId)
      /\ chatMessages' # chatMessages => \E h \in Handlers : pc[h] = "send_insert"
      /\ delivered' # delivered => \E h \in Handlers : pc[h] = "send_emit"
      /\ cache' # cache => \E h \in Handlers : pc[h] = "send_cache_set"
    ]_vars

\* C6 witness: an identity that left room 1 has just been refused
LeftMemberRefused ==
  /\ reply.ev = [type |-> "error", message |-> "You are not a member of this room"]
  /\ \E c \in reply.to :
       ParticipantIds(socketData[c], 1) # {} /\ ~IsActiveMember(socketData[c], 1)

\* C7: the fan-out of a sent message appends, for every open connection in the
\* room's channel at that moment, one new-message event carrying the sender's
\* content, the sender's identity, the room, and the id of the stored row (> 0):
\* exactly one row of chat_messages has that id, and it holds that content,
\* sender and room.
FanOutExact ==
  [][ \A h \in Handlers : SendEmit(h) =>
        LET r == loc[h].roomId
            id == loc[h].msgId
        IN /\ id > 0
           /\ Cardinality(MessagesWithId(id)) = 1
           /\ \A i \in MessagesWithId(id) :
                /\ chatMessages[i].content = loc[h].content
                /\ chatMessages[i].senderId = UserOf(h)
                /\ chatMessages[i].roomId = r
           /\ \A d \in Conns :
                (sockets[d] = "open" /\ r \in socketRooms[d])
                => /\ Len(delivered'[d]) = Len(delivered[d]) + 1
                   /\ SubSeq(delivered'[d], 1, Len(delivered[d])) = delivered[d]
                   /\ delivered'[d][Len(delivered'[d])] =
                        [id |-> id, content |-> loc[h].content,
                         senderId |-> UserOf(h), roomId |-> r]
    ]_vars

\* C7 witness: identity 2's connection has received "hello" from identity 1 in
\* room 1, with the id of the stored row, which an earlier rejected insert has
\* made differ from the row's place in the table
HelloReceived ==
  \E d \in Conns :
    /\ socketData[d] = 2
    /\ \E i \in 1..Len(delivered[d]) :
         /\ delivered[d][i].content = "hello"
         /\ delivered[d][i].senderId = 1
         /\ delivered[d][i].roomId = 1
         /\ delivered[d][i].id > 0
         /\ \E k \in MessagesWithId(delivered[d][i].id) :
              /\ chatMessages[k].content = "hello"
              /\ k < delivered[d][i].id

\* C8: a REST leave by an identity with no active Membership, and a leave-room
\* on a connection that is not in the room's channel, answer success and change
\* neither the membership table nor the connection's channels.
LeaveIsIdempotent ==
  [][ /\ \A u \in Users, r \in RoomIds :
           (RestLeave(u, r) /\ ~IsActiveMember(u, r))
           => (roomParticipants' = roomParticipants /\ restReply'.status = 200)
      /\ \A c \in Conns, r \in RoomIds :
           (LeaveUnsubscribe(c, r) /\ r \notin socketRooms[c])
           => socketRooms' = socketRooms
      /\ \A h \in Handlers :
           (LeaveWrite(h) /\ ~loc[h].wasIn)
           => (roomParticipants' = roomParticipants /\ reply'.ev.type = "left-room")
    ]_vars

\* C9: there is at most one Membership row per (identity, room) pair.
OneRowPerPair ==
  \A u \in Users, r \in RoomIds : Cardinality(ParticipantIds(u, r)) <= 1

\* C9 witness: a join-room has found its identity's inactive row and is about to
\* reactivate it, a first join racing with another first join of the same
\* identity has just been turned away by the storage layer, and each joiner
\* holds exactly one row
RejoinAndDuplicateRefused ==
  /\ reply.ev = [type |-> "error", message |-> "Failed to join room"]
  /\ \E h \in Handlers :
       /\ pc[h] = "join_write"
       /\ loc[h].participant # 0
       /\ ~roomParticipants[loc[h].participant].isActive
  /\ \A u \in Joiners : Cardinality(ParticipantIds(u, 1)) = 1

\* C10: whenever a message row is inserted, its author holds an active
\* Membership in the message's room at that moment.
AuthorActiveAtPersist ==
  [][ Len(chatMessages') > Len(chatMessages)
      => IsActiveMember(chatMessages'[Len(chatMessages')].senderId,
                        chatMessages'[Len(chatMessages')].roomId)
    ]_vars

\* Every id in the list refers to a stored message of the same room, content
\* and sender
AllPersisted(msgs) ==
  \A i \in 1..Len(msgs) :
    \E k \in MessagesWithId(msgs[i].id) :
      /\ chatMessages[k].roomId = msgs[i].roomId
      /\ chatMessages[k].content = msgs[i].content
      /\ chatMessages[k].senderId = msgs[i].senderId

\* C11: a send whose insert fails ends there: the handler returns, and no
\* new-message event and no cache entry comes of it (the id the rejected row
\* took is never used again).  So after every step, each message a connection
\* has received and each cached message carries the id of a stored row.
FailedInsertAborts ==
  [][ /\ \A h \in Handlers :
           (pc[h] = "send_insert" /\ pc'[h] # "send_insert" /\ chatMessages' = chatMessages)
           => /\ pc'[h] = "idle"
              /\ delivered' = delivered
              /\ cache' = cache
              /\ reply' = IF sockets[SocketOf(h)] = "open"
                           THEN [to |-> {SocketOf(h)}, ev |-> FailureOf(loc[h].op)]
                           ELSE NoReply
      /\ \A c \in Conns : AllPersisted(delivered[c])'
      /\ \A r \in RoomIds : AllPersisted(cache[r].msgs)'
    ]_vars

\* C11 witness: an insert has failed, and the message stored after it, under
\* the next id, was received and cached under that id
InsertFailedBesideStored ==
  /\ messageSeq = 2
  /\ Len(chatMessages) = 1
  /\ chatMessages[1].id = 2
  /\ \E c \in Conns : Len(delivered[c]) = 1 /\ delivered[c][1].id = 2
  /\ \E r \in RoomIds : Len(cache[r].msgs) = 1 /\ cache[r].msgs[1].id = 2

\* C12: no connection receives two new-message events with the same message
\* id, whether the message was sent by send-message or send-private-message
\* and however many connections its identity has.
DeliveredAtMostOnce ==
  \A c \in Conns : \A i, j \in 1..Len(delivered[c]) :
    delivered[c][i].id = delivered[c][j].id => i = j

\* C12 witness: a private message has reached two connections of the
\* recipient, once each
BothConnectionsOnce ==
  \E c, d \in Conns :
    /\ c # d
    /\ socketData[c] = socketData[d]
    /\ Len(delivered[c]) = 1 /\ Len(delivered[d]) = 1
    /\ delivered[c][1].id = delivered[d][1].id
    /\ chatRooms[delivered[c][1].roomId].type = "direct"

\* C13: every direct room has exactly two Membership rows, both with role
\* member, and capacity 2, whatever joins and leaves any identity attempts.
DirectRoomShape ==
  \A r \in {d \in 1..Len(chatRooms) : chatRooms[d].type = "direct"} :
    /\ Cardinality(RowsOf(r)) = 2
    /\ \A i \in RowsOf(r) : roomParticipants[i].role = "member"
    /\ chatRooms[r].maxParticipants = DMCapacity

\* C14: once no POST /rooms request is between its two inserts, a public or
\* private room exists if and only if its creator holds an active admin
\* Membership in it, also after a request that failed.
CreationAtomic ==
  (\A q \in Requests : rpc[q] # "create_participant")
  => /\ \A r \in 1..Len(chatRooms) :
          chatRooms[r].type \in {"public", "private"}
          => \E i \in ParticipantIds(chatRooms[r].createdBy, r) :
               roomParticipants[i].role = "admin" /\ roomParticipants[i].isActive
     /\ \A i \in 1..Len(roomParticipants) :
          roomParticipants[i].role = "admin"
          => /\ roomParticipants[i].roomId \in 1..Len(chatRooms)
             /\ chatRooms[roomParticipants[i].roomId].createdBy = roomParticipants[i].userId

\* C15: a room gains an active Membership, by a new row or by a reactivated
\* one and on either join path, only while its count of active Memberships is
\* below its capacity; and the capacity check of the REST route answers "at
\* maximum capacity" exactly when that count has reached the capacity.
JoinRespectsCapacity ==
  [][ /\ \A r \in 1..Len(chatRooms) :
           Cardinality(ActiveParticipantIds(r))' > Cardinality(ActiveParticipantIds(r))
           => Cardinality(ActiveParticipantIds(r)) < chatRooms[r].maxParticipants
      /\ \A q \in Requests :
           (rpc[q] = "join_count" /\ rpc'[q] # "join_count")
           => ( restReply'.status = 400
                <=> Cardinality(ActiveParticipantIds(rloc[q].roomId)) >= rloc[q].capacity )
    ]_vars

\* C16: while a room does not exist, or is private and the identity has no
\* Membership row in it, no step creates or reactivates a Membership of the
\* identity in the room or puts a connection of the identity into the room's
\* channel, on the socket path and on the REST route.
RejectedJoinChangesNothing ==
  [][ \A u \in Users, r \in RoomIds :
        ( \/ ~RoomExists(r)
          \/ (chatRooms[r].type = "private" /\ ParticipantIds(u, r) = {}) )
        => /\ ParticipantIds(u, r)' = ParticipantIds(u, r)
           /\ IsActiveMember(u, r)' = IsActiveMember(u, r)
           /\ \A c \in Conns :
                (socketData[c] = u /\ r \in socketRooms'[c]) => r \in socketRooms[c]
    ]_vars

\* The rows of the table other than those of identity u in room r
OtherRowsKept(u, r) ==
  /\ Len(roomParticipants') = Len(roomParticipants)
  /\ \A i \in 1..Len(roomParticipants) :
       IF roomParticipants[i].userId = u /\ roomParticipants[i].roomId = r
       THEN roomParticipants'[i] = [roomParticipants[i] EXCEPT !.isActive = FALSE]
       ELSE roomParticipants'[i] = roomParticipants[i]

\* C17: no step removes a Membership row, and a leave, by the REST route or by
\* leave-room, sets the leaver's own row inactive and changes no other row and
\* no room.
LeaveKeepsRows ==
  [][ /\ \A u \in Users, r \in RoomIds : ParticipantIds(u, r) \subseteq ParticipantIds(u, r)'
      /\ restReply'.message = "Successfully left the room"
           => /\ \E r \in RoomIds : OtherRowsKept(restReply'.to, r)
              /\ chatRooms' = chatRooms
      /\ \A h \in Handlers :
           (pc[h] = "leave_write" /\ pc'[h] = "idle")
           => (OtherRowsKept(UserOf(h), loc[h].roomId) /\ chatRooms' = chatRooms)
    ]_vars

\* C17 witness: identity 2 has just left room 1, where its row stays, inactive,
\* beside the active rows of identities 1 and 3
LeftBesideOthers ==
  /\ \/ restReply.message = "Successfully left the room"
     \/ reply.ev = [type |-> "left-room", roomId |-> 1]
  /\ ParticipantIds(2, 1) # {} /\ ~IsActiveMember(2, 1)
  /\ IsActiveMember(1, 1) /\ IsActiveMember(3, 1)

\* C18: when a connection closes it leaves the registry, and every room it was
\* subscribed to together with other open connections is told user-offline if
\* and only if it was the last connection of its identity.
OfflineOnLastConnection ==
  [][ \A c \in Conns :
        (sockets[c] = "open" /\ sockets'[c] = "closed")
        => /\ connectedUsers'[c] = 0
           /\ c \notin UNION {SocketIdsOf(u)' : u \in Users}
           /\ \A r \in socketRooms[c] :
                Subscribers(r) \ {c} # {}
                => ( ( /\ reply'.ev.type = "user-offline"
                       /\ (Subscribers(r) \ {c}) \subseteq reply'.to )
                     <=> SocketIdsOf(socketData[c]) = {c} )
    ]_vars

\* The connection is in the registry: in connectedUsers or in a socket-id set
Registered(c) == connectedUsers[c] # 0 \/ \E u \in UserIds : c \in SocketIdsOf(u)

\* C19: a handshake with no token or with a token that fails verification is
\* refused at once; one whose users row was not found, or found inactive, is
\* refused when the middleware resumes; a connection enters the registry only
\* from a handshake that found its identity active, every registered connection
\* is open and carries an active identity, and a connection that was not
\* admitted runs no handler and is in no channel.
AdmittedOnlyIfVerified ==
  [][ \A c \in Conns :
        /\ \A tok \in {NoToken, BadToken} :
             ConnectSelect(c, tok) => (sockets'[c] = "rejected" /\ ~handshake'[c].pending)
        /\ ( /\ handshake[c].pending /\ ~handshake'[c].pending
             /\ ~(handshake[c].found /\ handshake[c].isActive) )
           => (sockets'[c] \in {"rejected", "closed"} /\ ~Registered(c)')
        /\ (Registered(c)' /\ ~Registered(c))
           => /\ handshake[c].pending /\ handshake[c].found /\ handshake[c].isActive
              /\ socketData'[c] = handshake[c].id
        /\ Registered(c)'
           => /\ socketData'[c] \in DOMAIN users' /\ users'[socketData'[c]].isActive
              /\ sockets'[c] = "open"
        /\ sockets'[c] \in {"new", "rejected"}
           => /\ \A h \in Handlers : SocketOf(h)' # c
              /\ ~Registered(c)' /\ socketRooms'[c] = {}
    ]_vars

\* C19 witness: one connection was refused while another, admitted, is in the
\* middle of a handler
RefusedBesideAdmitted ==
  \E c, d \in Conns :
    /\ sockets[c] = "rejected" /\ socketData[c] = 0
    /\ sockets[d] = "open" /\ Registered(d)
    /\ \E h \in Handlers : SocketOf(h) = d /\ pc[h] # "idle"

\* C20: a typing-start or typing-stop changes no message, Membership, room or
\* cache entry, delivers no message, and moves no handler; what it emits goes
\* to the open connections in the room's channel except the emitting one.
TypingOnlyBroadcasts ==
  [][ reply'.ev.type \in {"user-typing", "user-stop-typing"}
      => /\ chatMessages' = chatMessages
         /\ roomParticipants' = roomParticipants
         /\ chatRooms' = chatRooms
         /\ cache' = cache
         /\ delivered' = delivered
         /\ socketRooms' = socketRooms
         /\ pc' = pc
         /\ \E c \in Conns :
              /\ sockets[c] = "open"
              /\ socketData[c] = reply'.ev.userId
              /\ reply'.to = {d \in Conns : /\ d # c
                                             /\ sockets[d] = "open"
                                             /\ reply'.ev.roomId \in socketRooms[d]}
    ]_vars

\* C20 witness: a typing indicator of room 1 has just gone out to another
\* connection, the room having a stored and cached message
TypingAfterMessage ==
  /\ reply.ev.type = "user-typing"
  /\ reply.ev.roomId = 1
  /\ reply.to # {}
  /\ Len(chatMessages) >= 1
  /\ cache[1].hit /\ Len(cache[1].msgs) >= 1

\* C21 as stated: with sends running one after the other, the buffer of a room
\* never holds more than 100 messages, and every send that stored its message
\* and finishes leaves the buffer as the last 100 (or all, if fewer) of what
\* it held with the send's message appended.
WindowIsSuffix ==
  /\ [](\A r \in RoomIds : Len(cache[r].msgs) <= CacheLimit)
  /\ [][ \A h \in Handlers :
           (pc[h] = "send_cache_set" /\ pc'[h] # "send_cache_set")
           => cache'[loc[h].roomId].msgs
                = SliceLast(Append(cache[loc[h].roomId].msgs, OutgoingMessage(h)), CacheLimit)
       ]_vars

\* C21, amended: with sends running one after the other, the buffer of a room
\* never holds more than 100 messages.  A send whose cache read returned the
\* buffer and whose cache write succeeds leaves the last 100 (or all, if
\* fewer) of what the buffer held with the send's message appended, oldest
\* first; a send whose cache read failed and whose write succeeds leaves its
\* own message alone; a send whose cache write fails leaves the buffer as it
\* was.  No send touches the buffer of another room.
WindowSlidesUnlessCacheFails ==
  /\ [](\A r \in RoomIds : Len(cache[r].msgs) <= CacheLimit)
  /\ [][ \A h \in Handlers :
           LET r == loc[h].roomId
               m == OutgoingMessage(h)
           IN /\ (SendCacheSet(h) /\ loc[h].msgs = cache[r].msgs)
                 => cache'[r] = [hit |-> TRUE,
                                 msgs |-> SliceLast(Append(cache[r].msgs, m), CacheLimit)]
              /\ (SendCacheSet(h) /\ loc[h].msgs # cache[r].msgs)
                 => (loc[h].msgs = <<>> /\ cache'[r] = [hit |-> TRUE, msgs |-> <<m>>])
              /\ SendCacheSetFail(h) => cache' = cache
              /\ (pc[h] = "send_cache_set" /\ pc'[h] # "send_cache_set")
                 => \A q \in RoomIds \ {r} : cache'[q] = cache[q]
       ]_vars

\* C21 witness: two sends have completed on a full buffer, whose two oldest
\* entries are gone
TwoEvicted ==
  /\ InFlight = 0
  /\ Len(cache[1].msgs) = CacheLimit
  /\ cache[1].msgs[1].id = 3
  /\ cache[1].msgs[CacheLimit].id = CacheLimit + 2

\* C22: when two send-message handlers on the same room have run concurrently
\* and both have completed, the buffer of the room holds both messages:
\* with no handler running, every stored message is in its room's buffer.
BothAppended ==
  InFlight = 0
  => \A i \in 1..Len(chatMessages) :
       \E k \in 1..Len(cache[chatMessages[i].roomId].msgs) :
         cache[chatMessages[i].roomId].msgs[k].id = chatMessages[i].id

\* C23: every stored message with a reply-to references a message that was
\* stored before it, in its own room.
RepliesAreValid ==
  \A i \in 1..Len(chatMessages) :
    chatMessages[i].replyToId # 0
    => \E k \in 1..(i - 1) :
         /\ chatMessages[k].id = chatMessages[i].replyToId
         /\ chatMessages[k].roomId = chatMessages[i].roomId

\* The ids of the messages in a list of event payloads
IdsIn(msgs) == {msgs[k].id : k \in 1..Len(msgs)}

\* C24: when a join-room completes while a send-message to the same room is
\* between its broadcast and the end of its cache steps, the joining
\* connection has received that message live or finds it in the messages of
\* joined-room.
JoinerMissesNothing ==
  [][\A g \in Handlers :
       (pc[g] = "join_info" /\ pc'[g] = "idle")
       => \A h \in Handlers :
            (/\ pc[h] \in {"send_cache_get", "send_cache_set"}
             /\ loc[h].roomId = loc[g].roomId)
            => loc[h].msgId \in IdsIn(delivered[SocketOf(g)]) \cup IdsIn(reply'.ev.messages)]_vars


\* C25: a handler step that answers its connection with an error leaves the
\* connection registered and open, ready for a further event, and subscribed
\* to the rooms it was subscribed to before the operation began.
ErrorKeepsConnection ==
  [][\A c \in Conns :
       (reply'.ev.type = "error" /\ c \in reply'.to)
       => /\ connectedUsers'[c] = socketData[c]
          /\ c \in SocketIdsOf(socketData[c])'
          /\ sockets'[c] = "open"
          /\ \A h \in Handlers :
               (SocketOf(h) = c /\ pc'[h] # pc[h])
               => /\ pc'[h] = "idle"
                  /\ loc[h].op = "leave"
                     => (loc[h].roomId \in socketRooms'[c]) = loc[h].wasIn
          /\ socketRooms'[c] = socketRooms[c]]_vars

\* C26: for every identity, the socket-id set of userRooms is the set of
\* connections connectedUsers maps to it, is never an empty set, and
\* getUserConnectionCount is the number of its admitted, unclosed connections.
RegistryConsistent ==
  \A u \in UserIds :
    /\ SocketIdsOf(u) = {c \in Conns : connectedUsers[c] = u}
    /\ userRooms[u] # {}
    /\ getUserConnectionCount(u)
         = Cardinality({c \in Conns : sockets[c] = "open" /\ socketData[c] = u})

\* C26 witness: of two connections of one identity, both admitted, one has
\* closed and the other is live; and another identity's only connection closed
OneOfTwoClosed ==
  /\ \E c, d \in Conns :
       /\ c # d /\ socketData[c] = socketData[d]
       /\ sockets[c] = "closed" /\ sockets[d] = "open"
       /\ getUserConnectionCount(socketData[c]) = 1
  /\ \E e \in Conns :
       /\ sockets[e] = "closed" /\ socketData[e] # 0
       /\ getUserConnectionCount(socketData[e]) = 0

\* C27: with handlers running one after the other, the messages of
\* joined-room are the 50 most recent messages of the room in storage (all,
\* if fewer), oldest first, whatever the state of the buffer.
JoinedRoomIsStorageTail ==
  [][\A h \in Handlers :
       (pc[h] = "join_info" /\ pc'[h] = "idle")
       => reply'.ev.messages = RoomHistory(loc[h].roomId, HistoryLimit)]_vars

\* C28: a connection receives a new-message of a room only while its
\* identity holds an active Membership in that room.
DeliveredToMembersOnly ==
  [][\A d \in Conns :
       Len(delivered'[d]) > Len(delivered[d])
       => IsActiveMember(socketData[d], delivered'[d][Len(delivered'[d])].roomId)]_vars

\* C29: when a send-private-message that stored its message completes, every
\* live connection of the recipient is subscribed to the direct room and has
\* received the new-message of that message.
RecipientReachedLive ==
  [][\A h \in Handlers :
       (pc[h] = "dm_notify" /\ pc'[h] = "idle" /\ loc[h].msgId # 0)
       => \A d \in Conns :
            (sockets[d] = "open" /\ socketData[d] = loc[h].recipientId)
            => /\ loc[h].roomId \in socketRooms'[d]
               /\ loc[h].msgId \in IdsIn(delivered'[d])]_vars

\* C30: a closed connection stays closed; it is never again in connectedUsers
\* or in a socket-id set, and getOnlineUsersInRoom reports no identity on its
\* account, whatever handlers resume after the close.
ClosedIsTerminal ==
  /\ [](/\ \A c \in Conns :
            sockets[c] = "closed"
            => /\ connectedUsers[c] = 0
               /\ \A u \in UserIds : c \notin SocketIdsOf(u)
        /\ \A r \in RoomIds : \A u \in getOnlineUsersInRoom(r) :
            \E d \in Conns : sockets[d] = "open" /\ socketData[d] = u /\ r \in socketRooms[d])
  /\ [][\A c \in Conns : sockets[c] = "closed" => sockets'[c] = "closed"]_vars

\* C30 witness: a join-room handler resumed after its connection had closed
\* and put the closed socket into the room's channel
ClosedSocketInChannel ==
  \E c \in Conns :
    /\ sockets[c] = "closed" /\ socketRooms[c] # {}
    /\ \A h \in Handlers : SocketOf(h) = c => pc[h] = "idle"
====
